---- MODULE Spec2Model ----
(***************************************************************************)
(* The client-side store of the invoicing application (supabase-store):    *)
(* the backend tables, the in-memory snapshot, and every store operation   *)
(* as a sequence of steps, one step per awaited backend statement.         *)
(*                                                                         *)
(* One step of a call is what the single-threaded event loop runs without  *)
(* interruption: the arrival of a statement's response (the statement      *)
(* takes effect in the backend and answers) followed by the code up to the *)
(* next await.  Calls interleave only between steps.                       *)
(*                                                                         *)
(* Timestamps (created_at, updated_at, last_visit) and the pass-through    *)
(* columns (name, payment method, pickup date, notes, creator) carry no    *)
(* control flow and are left out; created_at is kept as the order of the   *)
(* rows in a table.                                                        *)
(***************************************************************************)
EXTENDS Integers, Sequences, FiniteSets, TLC

\* ------------------------------------------------------------------ bounds

\* Store calls (user actions) started in one run.
MaxOps == 3
\* Change notifications waiting for delivery, per table; more are merged.
MaxPending == 1

\* ---------------------------------------------------------------- universes

Null == "null"
\* The store's realtimeChannel field when it is null: no handle.
NoChannel == 0
\* The store's error field when it is null: no message.
NoError == <<>>
ClientIds == {"c1", "c2"}
InvoiceIds == {"INV-1", "INV-2"}
Phones == {"+250788000000", "+250788000001"}
Statuses == {"pending", "completed"}
TaskIds == {"t1", "t2"}

\* Item lists a caller may pass (description, quantity, unitPrice, totalPrice).
\* The item lines of the invoice form, and the items it makes of them.
ShirtLine == [description |-> "Shirt wash", quantity |-> 2, unitPrice |-> 1000]
SuitLine == [description |-> "Suit", quantity |-> 1, unitPrice |-> 500]
FormItemLists == {<<ShirtLine>>, <<SuitLine, ShirtLine>>}
Shirt == [description |-> "Shirt wash", quantity |-> 2, unitPrice |-> 1000, totalPrice |-> 2000]
Suit == [description |-> "Suit", quantity |-> 1, unitPrice |-> 500, totalPrice |-> 500]
ItemLists == {<<Suit, Shirt>>}

\* Table users, provisioned by the admin: one account with a name, one without.
Users == {[phone |-> "+250788000000", name |-> "Jean"],
          [phone |-> "+250788000001", name |-> ""]}
\* What a caller types as a phone: blanks, the text, blanks.
RawPhones == {"", " "} \X {"+250788000000", "+250788000001", "+250788000002"} \X {"", " "}
\* The name a caller passes to setCurrentUser, or Null when it passes none.
CallerNames == {Null, "Bosco"}

\* ------------------------------------------------------------------ helpers

\* phone.trim(): the text without the blanks around it.
Trim(raw) == raw[2]
\* A value that || and if () take as present.
Truthy(x) == x # Null /\ x # ""
\* .eq("phone", phone).maybeSingle() on users: the account, or none.
HasAccount(phone) == \E u \in Users : u.phone = phone
Account(phone) == CHOOSE u \in Users : u.phone = phone

Reverse(s) == [i \in 1..Len(s) |-> s[Len(s) + 1 - i]]

\* calculateTotal of the invoice form, lines 104-107 of the form.
RECURSIVE CalculateTotal(_)
CalculateTotal(items) ==
  IF items = <<>> THEN 0
  ELSE items[1].quantity * items[1].unitPrice + CalculateTotal(Tail(items))

Ids(rows) == {rows[i].id : i \in 1..Len(rows)}

\* .eq("id", id) on a table or list: the rows it selects.
Row(rows, id) == CHOOSE i \in 1..Len(rows) : rows[i].id = id
Has(rows, id) == \E i \in 1..Len(rows) : rows[i].id = id

\* A numeric column holds a decimal, read back as text.
ToNumeric(n) == <<"numeric", n>>
ParseFloat(t) == t[2]

\* A backend error object, and the Error the store throws around it.
BackendError(stmt) == <<"backend", stmt>>
ErrorMessage(prefix, backendError) == <<prefix>> \o backendError

\* One entry of a call's statement trace.
Call(stmt, ok) == <<stmt, ok>>

\* ----------------------------------------------------------------- state

VARIABLES
  dbClients,        \* table clients, in created_at order
  dbInvoices,       \* table invoices, in created_at order
  dbItems,          \* table invoice_items
  dbAudit,          \* table audit_logs
  usedCids,         \* client ids the backend has generated
  invoices,         \* store: Invoice[]
  clients,          \* store: Client[]
  loading,          \* store: loading flag
  error,            \* store: error string or Null
  isInitialized,
  databaseReady,
  realtimeChannel,  \* store: handle of the subscription (its number), or NoChannel
  openChannels,     \* subscriptions open at the backend
  tasks,            \* calls in flight
  pendInv,          \* change notifications for invoices not yet delivered
  pendCli,          \* change notifications for clients not yet delivered
  budget,           \* store calls still to start
  ret,              \* what the step just taken returned to a caller, or NoRet
  currentUserPhone, \* store: session phone, or Null
  currentUserName,  \* store: session name, or Null
  lsPhone,          \* localStorage ims_user_phone, or Null when absent
  lsName,           \* localStorage ims_user_name, or Null when absent
  form,             \* the invoice form: the item lines on screen and the
                    \* submission it is working on
  feedLog,          \* history of the change feed's reloads: "off" (not kept),
                    \* "clean" (none has failed) or "failed"
  hist              \* history of the tables: the states they have been in,
                    \* oldest first, or empty when it is not kept

backend == <<dbClients, dbInvoices, dbItems, dbAudit, usedCids>>
snapshot == <<invoices, clients>>
channel == <<realtimeChannel, openChannels>>
feed == <<pendInv, pendCli>>
session == <<currentUserPhone, currentUserName, lsPhone, lsName>>
vars == <<dbClients, dbInvoices, dbItems, dbAudit, usedCids, invoices, clients,
          loading, error, isInitialized, databaseReady, realtimeChannel,
          openChannels, tasks, pendInv, pendCli, budget, ret,
          currentUserPhone, currentUserName, lsPhone, lsName, form, feedLog, hist>>

NoRet == [op |-> "none"]

\* The history of the change feed's reloads after this step: a load nobody
\* awaits has failed.
LoggedReload ==
  IF feedLog = "clean" /\ ret'.op \in {"loadInvoices", "loadClients"} /\ ret'.failed
  THEN "failed"
  ELSE feedLog

\* The three tables a load of the invoices reads.
Tables == [invoices |-> dbInvoices, clients |-> dbClients, items |-> dbItems]

\* The history of the tables after this step.
Logged ==
  IF hist = <<>> THEN hist
  ELSE IF Tables' = hist[Len(hist)] THEN hist
  ELSE Append(hist, Tables')

NoClient == [id |-> Null]

\* A call in flight.  pc names the statement it awaits; li and lc are the
\* positions of the loadInvoices and loadClients calls it is awaiting; calls
\* is the history of the statements it has issued, with their outcomes, and
\* stored the history of the visit count the backend held when it started,
\* and since the place in the history of the tables at which a load of the
\* invoices read the headers.
NewTask(op, pc, arg) ==
  [op |-> op, pc |-> pc, arg |-> arg, calls |-> <<>>,
   li |-> "none", lc |-> "none", fInv |-> <<>>, fCli |-> <<>>, val |-> NoClient,
   stored |-> 0, since |-> 0]

Idle == NewTask("idle", "idle", Null)
Free(t) == tasks[t] = Idle
\* The slot a new call takes.
FirstFree == CHOOSE t \in TaskIds : Free(t) /\ (t = "t1" \/ ~Free("t1"))
SomeFree == \E t \in TaskIds : Free(t)

\* A call's result as its caller sees it.
Return(tk, raised, failed, value) ==
  [op |-> tk.op, arg |-> tk.arg, calls |-> tk.calls, stored |-> tk.stored,
   raised |-> raised, failed |-> failed, value |-> value]

\* ------------------------------------------------------ the backend tables

\* A write that changed rows of a table is announced to the subscribers.
Announce(pend, changed) ==
  IF changed /\ openChannels > 0 /\ pend < MaxPending THEN pend + 1 ELSE pend

ClientRow(id, c) ==
  [id |-> id, phone |-> c.phone,
   address |-> IF c.address = "" THEN Null ELSE c.address,
   visit_count |-> c.visitCount]

InvoiceRow(inv) ==
  [id |-> inv.id, client_id |-> inv.client.id, total |-> ToNumeric(inv.total),
   status |-> inv.status]

ItemRows(id, items) ==
  [i \in 1..Len(items) |->
     [invoice_id |-> id, description |-> items[i].description,
      quantity |-> items[i].quantity,
      unit_price |-> ToNumeric(items[i].unitPrice),
      total_price |-> ToNumeric(items[i].totalPrice)]]

\* A delete that answers without removing the row.
DeleteByIdKeepsRow(rows, id) == rows

DeleteById(rows, id) == SelectSeq(rows, LAMBDA r : r.id # id)
\* A delete of item rows that answers without removing them.
DeleteItemsOfKeepsRows(rows, id) == rows
DeleteItemsOf(rows, id) == SelectSeq(rows, LAMBDA r : r.invoice_id # id)

\* ------------------------------------------------------------ the loaders

\* loadClients' and loadInvoices' mapping of a client row (visit_count is
\* never null: addClient writes a number).
MapClient(row) ==
  [id |-> row.id, phone |-> row.phone,
   address |-> IF row.address = Null THEN "" ELSE row.address,
   visitCount |-> row.visit_count]

MapItem(row) ==
  [description |-> row.description, quantity |-> row.quantity,
   unitPrice |-> ParseFloat(row.unit_price),
   totalPrice |-> ParseFloat(row.total_price)]

MapClients(clientsData) ==
  [i \in 1..Len(clientsData) |-> MapClient(clientsData[i])]

\* A join that gives every invoice all the item rows fetched.
ItemsOfAnyInvoice(itemsData, id) ==
  [i \in 1..Len(itemsData) |-> MapItem(itemsData[i])]

\* itemsMap.get(invoice.id) || []
ItemsOf(itemsData, id) ==
  LET rows == SelectSeq(itemsData, LAMBDA r : r.invoice_id = id)
  IN  [i \in 1..Len(rows) |-> MapItem(rows[i])]

BuildInvoice(row, clientsData, itemsData) ==
  [id |-> row.id,
   client |-> MapClient(clientsData[Row(clientsData, row.client_id)]),
   items |-> ItemsOf(itemsData, row.id),
   total |-> ParseFloat(row.total),
   status |-> row.status]

\* loadInvoices' join: headers without a client row are dropped.
BuildInvoices(invoicesData, clientsData, itemsData) ==
  LET kept == SelectSeq(invoicesData, LAMBDA r : Has(clientsData, r.client_id))
  IN  [i \in 1..Len(kept) |-> BuildInvoice(kept[i], clientsData, itemsData)]

\* What the code after a finished loadInvoices or loadClients call does: the
\* caller's continuation up to its next await, or its catch block.  tk is the
\* call with the finished load recorded in li or lc.
StoreFlags == <<loading, error, isInitialized, databaseReady>>

\* loadInvoices or loadClients called by the change feed or running on after
\* Promise.all has rejected: nobody handles the result.
ResumeLoad(t, tk, ok) ==
  /\ tasks' = [tasks EXCEPT ![t] = Idle]
  /\ ret' = Return(tk, ~ok, ~ok, NoClient)
  /\ UNCHANGED <<StoreFlags, channel>>

\* An addInvoice that takes a failed reload for a warning and goes on to its
\* audit insert.
ResumeAddInvoiceIgnoresReload(t, tk, ok, msg) ==
  IF ok /\ tk.pc = "reloadInvoices"
  THEN /\ tasks' = [tasks EXCEPT ![t] =
                      [tk EXCEPT !.pc = "reloadClients", !.li = "none", !.lc = "clients"]]
       /\ ret' = NoRet
       /\ UNCHANGED <<StoreFlags, channel>>
  ELSE /\ loading' = FALSE
       /\ tasks' = [tasks EXCEPT ![t] =
                      [tk EXCEPT !.pc = "audit", !.li = "none", !.lc = "none"]]
       /\ ret' = NoRet
       /\ UNCHANGED <<error, isInitialized, databaseReady, channel>>

\* addInvoice, lines 627-632 and 652-662.
ResumeAddInvoice(t, tk, ok, msg) ==
  IF ~ok
  THEN /\ error' = msg
       /\ loading' = FALSE
       /\ tasks' = [tasks EXCEPT ![t] = Idle]
       /\ ret' = Return(tk, TRUE, TRUE, NoClient)
       /\ UNCHANGED <<isInitialized, databaseReady, channel>>
  ELSE IF tk.pc = "reloadInvoices"
  THEN /\ tasks' = [tasks EXCEPT ![t] =
                      [tk EXCEPT !.pc = "reloadClients", !.li = "none", !.lc = "clients"]]
       /\ ret' = NoRet
       /\ UNCHANGED <<StoreFlags, channel>>
  ELSE /\ loading' = FALSE
       /\ tasks' = [tasks EXCEPT ![t] = [tk EXCEPT !.pc = "audit", !.lc = "none"]]
       /\ ret' = NoRet
       /\ UNCHANGED <<error, isInitialized, databaseReady, channel>>

\* updateInvoice, lines 727-729 and 747-756: the catch block does not rethrow.
ResumeUpdateInvoice(t, tk, ok, msg) ==
  IF ~ok
  THEN /\ error' = msg
       /\ loading' = FALSE
       /\ tasks' = [tasks EXCEPT ![t] = Idle]
       /\ ret' = Return(tk, FALSE, TRUE, NoClient)
       /\ UNCHANGED <<isInitialized, databaseReady, channel>>
  ELSE /\ loading' = FALSE
       /\ tasks' = [tasks EXCEPT ![t] = [tk EXCEPT !.pc = "audit", !.li = "none"]]
       /\ ret' = NoRet
       /\ UNCHANGED <<error, isInitialized, databaseReady, channel>>

\* The load Promise.all is still waiting for when the other one rejects: it
\* runs on, detached from initializeDatabase.
Detached(tk) ==
  IF tk.li \in {"invoices", "clients", "items"}
  THEN [tk EXCEPT !.op = "loadInvoices", !.pc = "detached", !.lc = "none"]
  ELSE IF tk.lc = "clients"
  THEN [tk EXCEPT !.op = "loadClients", !.pc = "detached", !.li = "none"]
  ELSE Idle

\* initializeDatabase, lines 200-203 and 212-219, around loadData's
\* Promise.all, and subscribeToRealTimeUpdates.
ResumeInitializeDatabase(t, tk, ok, msg) ==
  IF ~ok
  THEN /\ error' = ErrorMessage("Database initialization failed", msg)
       /\ loading' = FALSE
       /\ databaseReady' = FALSE
       /\ tasks' = [tasks EXCEPT ![t] = Detached(tk)]
       /\ ret' = Return(tk, FALSE, TRUE, NoClient)
       /\ UNCHANGED <<isInitialized, channel>>
  ELSE IF tk.li = "ok" /\ tk.lc = "ok"
  THEN /\ openChannels' = openChannels + 1
       /\ realtimeChannel' = openChannels + 1
       /\ isInitialized' = TRUE
       /\ loading' = FALSE
       /\ tasks' = [tasks EXCEPT ![t] = Idle]
       /\ ret' = Return(tk, FALSE, FALSE, NoClient)
       /\ UNCHANGED <<error, databaseReady>>
  ELSE /\ tasks' = [tasks EXCEPT ![t] = tk]
       /\ ret' = NoRet
       /\ UNCHANGED <<StoreFlags, channel>>

Resume(t, tk, ok, msg) ==
  CASE tk.op = "addInvoice" -> ResumeAddInvoice(t, tk, ok, msg)
    [] tk.op = "updateInvoice" -> ResumeUpdateInvoice(t, tk, ok, msg)
    [] tk.op = "initializeDatabase" -> ResumeInitializeDatabase(t, tk, ok, msg)
    [] OTHER -> ResumeLoad(t, tk, ok)

\* A load step that leaves the load in flight.
StillLoading(t, tk) ==
  /\ tasks' = [tasks EXCEPT ![t] = tk]
  /\ ret' = NoRet
  /\ UNCHANGED <<StoreFlags, channel>>

\* A load that leaves a list that was already loaded as it is.
PublishKeepsLoaded(current, loaded) == IF current # <<>> THEN current ELSE loaded

\* set({ invoices }) and set({ clients }), lines 523 and 246: the list a load
\* has built replaces the list of the snapshot, whatever that holds.
Publish(current, loaded) == loaded

\* loadInvoices, lines 431-445: the header fetch.
LoadInvoicesFetchInvoices(t) ==
  /\ tasks[t] # Idle
  /\ tasks[t].li = "invoices"
  /\ \E ok \in BOOLEAN :
       LET tk == [tasks[t] EXCEPT !.calls = Append(@, Call("select invoices", ok))]
       IN  IF ~ok
           THEN /\ UNCHANGED snapshot
                /\ Resume(t, [tk EXCEPT !.li = "err"], FALSE,
                          ErrorMessage("Failed to load invoices", BackendError("select invoices")))
           ELSE IF dbInvoices = <<>>
           THEN /\ invoices' = Publish(invoices, <<>>)
                /\ UNCHANGED clients
                /\ Resume(t, [tk EXCEPT !.li = "ok"], TRUE, <<>>)
           ELSE /\ UNCHANGED snapshot
                /\ StillLoading(t, [tk EXCEPT !.li = "clients", !.fInv = Reverse(dbInvoices),
                                                    !.since = Len(hist)])
  /\ UNCHANGED <<backend, feed, budget>>
  /\ UNCHANGED session
  /\ feedLog' = LoggedReload
  /\ hist' = Logged
  /\ UNCHANGED form

\* loadInvoices, lines 447-454: the client fetch.
LoadInvoicesFetchClients(t) ==
  /\ tasks[t] # Idle
  /\ tasks[t].li = "clients"
  /\ \E ok \in BOOLEAN :
       LET tk == [tasks[t] EXCEPT !.calls = Append(@, Call("select clients", ok))]
       IN  IF ~ok
           THEN Resume(t, [tk EXCEPT !.li = "err", !.fInv = <<>>, !.since = 0], FALSE,
                       ErrorMessage("Failed to load clients", BackendError("select clients")))
           ELSE StillLoading(t, [tk EXCEPT !.li = "items", !.fCli = dbClients])
  /\ UNCHANGED <<snapshot, backend, feed, budget>>
  /\ UNCHANGED session
  /\ feedLog' = LoggedReload
  /\ hist' = Logged
  /\ UNCHANGED form

\* loadInvoices, lines 456-523: the item fetch, the join and the publication.
LoadInvoicesFetchItems(t) ==
  /\ tasks[t] # Idle
  /\ tasks[t].li = "items"
  /\ \E ok \in BOOLEAN :
       LET tk == [tasks[t] EXCEPT !.calls = Append(@, Call("select invoice_items", ok)),
                                  !.fInv = <<>>, !.fCli = <<>>, !.since = 0]
       IN  IF ~ok
           THEN /\ UNCHANGED snapshot
                /\ Resume(t, [tk EXCEPT !.li = "err"], FALSE,
                          ErrorMessage("Failed to load invoice items",
                                       BackendError("select invoice_items")))
           ELSE /\ invoices' = Publish(invoices,
                                       BuildInvoices(tasks[t].fInv, tasks[t].fCli, dbItems))
                /\ UNCHANGED clients
                /\ Resume(t, [tk EXCEPT !.li = "ok"], TRUE, <<>>)
  /\ UNCHANGED <<backend, feed, budget>>
  /\ UNCHANGED session
  /\ feedLog' = LoggedReload
  /\ hist' = Logged
  /\ UNCHANGED form

\* loadClients, lines 222-252.
LoadClientsFetch(t) ==
  /\ tasks[t] # Idle
  /\ tasks[t].lc = "clients"
  /\ \E ok \in BOOLEAN :
       LET tk == [tasks[t] EXCEPT !.calls = Append(@, Call("select clients", ok))]
       IN  IF ~ok
           THEN /\ UNCHANGED snapshot
                /\ Resume(t, [tk EXCEPT !.lc = "err"], FALSE,
                          ErrorMessage("Failed to load clients", BackendError("select clients")))
           ELSE /\ clients' = Publish(clients, MapClients(Reverse(dbClients)))
                /\ UNCHANGED invoices
                /\ Resume(t, [tk EXCEPT !.lc = "ok"], TRUE, <<>>)
  /\ UNCHANGED <<backend, feed, budget>>
  /\ UNCHANGED session
  /\ feedLog' = LoggedReload
  /\ hist' = Logged
  /\ UNCHANGED form

\* ------------------------------------------------------- the change feed

\* subscribeToRealTimeUpdates, lines 850-854: the invoices handler.
NotifyInvoices ==
  /\ pendInv > 0
  /\ openChannels > 0
  /\ SomeFree
  /\ pendInv' = pendInv - 1
  /\ tasks' = [tasks EXCEPT ![FirstFree] =
                 [NewTask("loadInvoices", "feed", Null) EXCEPT !.li = "invoices"]]
  /\ ret' = NoRet
  /\ UNCHANGED <<backend, snapshot, StoreFlags, channel, pendCli, budget>>
  /\ UNCHANGED <<session, form, feedLog>>
  /\ hist' = Logged

\* subscribeToRealTimeUpdates, lines 863-867: the clients handler.
NotifyClients ==
  /\ pendCli > 0
  /\ openChannels > 0
  /\ SomeFree
  /\ pendCli' = pendCli - 1
  /\ tasks' = [tasks EXCEPT ![FirstFree] =
                 [NewTask("loadClients", "feed", Null) EXCEPT !.lc = "clients"]]
  /\ ret' = NoRet
  /\ UNCHANGED <<backend, snapshot, StoreFlags, channel, pendInv, budget>>
  /\ UNCHANGED <<session, form, feedLog>>
  /\ hist' = Logged

\* -------------------------------------------------------- initialization

\* A store call starts when the user acts: within the budget, in a free slot.
CanStart == budget > 0 /\ SomeFree

\* initializeDatabase, lines 171-175, up to the await in checkDatabaseSetup.
InitializeDatabase ==
  /\ CanStart
  /\ budget' = budget - 1
  /\ loading' = TRUE
  /\ error' = NoError
  /\ tasks' = [tasks EXCEPT ![FirstFree] = NewTask("initializeDatabase", "check", Null)]
  /\ ret' = NoRet
  /\ UNCHANGED <<backend, snapshot, isInitialized, databaseReady, channel, feed>>
  /\ UNCHANGED <<session, form, feedLog>>
  /\ hist' = Logged

\* initializeDatabase, lines 177-199: the session as read back from
\* localStorage when the name is there.
Hydrated == <<lsPhone, lsName>>

\* checkDatabaseSetup, lines 131-169, and initializeDatabase, lines 176-211.
\* Either kind of connection error ends in the else branch of line 204.  With
\* a persisted phone and no persisted name the call goes on to look the name
\* up; otherwise to loadData.
InitializeDatabaseCheck(t) ==
  /\ tasks[t] # Idle
  /\ tasks[t].op = "initializeDatabase"
  /\ tasks[t].pc = "check"
  /\ \E ok \in BOOLEAN :
       LET tk == [tasks[t] EXCEPT !.calls = Append(@, Call("select count clients", ok))]
       IN  IF ok
           THEN /\ databaseReady' = TRUE
                /\ IF Truthy(lsPhone) /\ ~Truthy(lsName)
                   THEN /\ tasks' = [tasks EXCEPT ![t] =
                                      [tk EXCEPT !.pc = "hydrate", !.arg = [phone |-> lsPhone]]]
                        /\ UNCHANGED session
                   ELSE /\ tasks' = [tasks EXCEPT ![t] =
                                      [tk EXCEPT !.pc = "loadData", !.lc = "clients",
                                                 !.li = "invoices"]]
                        /\ IF Truthy(lsPhone)
                           THEN /\ currentUserPhone' = Hydrated[1]
                                /\ currentUserName' = Hydrated[2]
                                /\ UNCHANGED <<lsPhone, lsName>>
                           ELSE UNCHANGED session
                /\ ret' = NoRet
                /\ UNCHANGED <<loading, error>>
           ELSE /\ databaseReady' = FALSE
                /\ error' = <<"Database tables not found. Please run the setup script in Supabase SQL Editor.">>
                /\ loading' = FALSE
                /\ tasks' = [tasks EXCEPT ![t] = Idle]
                /\ ret' = Return(tk, FALSE, TRUE, NoClient)
                /\ UNCHANGED session
  /\ UNCHANGED <<backend, snapshot, isInitialized, channel, feed, budget>>
  /\ UNCHANGED <<form, feedLog>>
  /\ hist' = Logged

\* initializeDatabase, lines 183-197: the lookup of the name answers; a name
\* found is persisted; the session is set from the phone read before.
InitializeDatabaseHydrate(t) ==
  /\ tasks[t] # Idle
  /\ tasks[t].op = "initializeDatabase"
  /\ tasks[t].pc = "hydrate"
  /\ \E ok \in BOOLEAN :
       LET phone == tasks[t].arg.phone
           found == ok /\ HasAccount(phone) /\ Truthy(Account(phone).name)
           tk == [tasks[t] EXCEPT !.calls = Append(@, Call("select users", ok))]
       IN  /\ lsName' = IF found THEN Account(phone).name ELSE lsName
           /\ currentUserPhone' = phone
           /\ currentUserName' = IF found THEN Account(phone).name ELSE Null
           /\ tasks' = [tasks EXCEPT ![t] =
                          [tk EXCEPT !.pc = "loadData", !.lc = "clients", !.li = "invoices"]]
  /\ ret' = NoRet
  /\ UNCHANGED <<backend, snapshot, StoreFlags, channel, feed, budget, lsPhone, form, feedLog>>
  /\ hist' = Logged

\* ------------------------------------------------------------ the writers

\* A catch block that does not rethrow, whichever the writer.
CatchWithoutRethrow(t, tk, msg) ==
  /\ error' = msg
  /\ loading' = FALSE
  /\ tasks' = [tasks EXCEPT ![t] = Idle]
  /\ ret' = Return(tk, FALSE, TRUE, NoClient)

\* A writer's catch block: the error string, the loading flag, and the end of
\* the call.  Only addInvoice rethrows (line 661).
Catch(t, tk, msg) ==
  /\ error' = msg
  /\ loading' = FALSE
  /\ tasks' = [tasks EXCEPT ![t] = Idle]
  /\ ret' = Return(tk, tk.op = "addInvoice", TRUE, NoClient)

\* The writer goes on to its next statement.
Goto(t, tk, pc) ==
  /\ tasks' = [tasks EXCEPT ![t] = [tk EXCEPT !.pc = pc]]
  /\ ret' = NoRet

\* What the invoice form and the pages pass to addInvoice.
AddInvoiceInputs ==
  {[id |-> id, client |-> client, items |-> items, status |-> "pending",
    total |-> CalculateTotal(items)] :
     id \in InvoiceIds \cup {""},
     client \in {clients[i] : i \in 1..Len(clients)} \cup {NoClient},
     items \in ItemLists \cup {<<>>}}

\* A validation without the check of the item list.
ValidationErrorSkipsItems(inv) ==
  IF inv.id = "" THEN <<"Invoice ID is required">>
  ELSE IF inv.client.id = Null THEN <<"Client ID is required">>
  ELSE NoError

\* addInvoice, lines 537-545.
ValidationError(inv) ==
  IF inv.id = "" THEN <<"Invoice ID is required">>
  ELSE IF inv.client.id = Null THEN <<"Client ID is required">>
  ELSE IF Len(inv.items) = 0 THEN <<"Invoice items are required">>
  ELSE NoError

\* addInvoice, lines 531-576, up to the await of the header insert.
AddInvoice(input) ==
  /\ CanStart
  /\ budget' = budget - 1
  /\ LET inv == [id |-> input.id, client |-> input.client, items |-> input.items,
                 status |-> input.status, total |-> input.total]
         tk == [NewTask("addInvoice", "insertInvoice", inv) EXCEPT !.stored =
                  IF inv.client.id # Null /\ Has(dbClients, inv.client.id)
                  THEN dbClients[Row(dbClients, inv.client.id)].visit_count
                  ELSE 0]
     IN  IF ValidationError(inv) # NoError
         THEN /\ error' = ValidationError(inv)
              /\ loading' = FALSE
              /\ ret' = Return(tk, TRUE, TRUE, NoClient)
              /\ UNCHANGED tasks
         ELSE /\ error' = NoError
              /\ loading' = TRUE
              /\ tasks' = [tasks EXCEPT ![FirstFree] = tk]
              /\ ret' = NoRet
  /\ UNCHANGED <<backend, snapshot, isInitialized, databaseReady, channel, feed>>
  /\ UNCHANGED <<session, feedLog>>
  /\ hist' = Logged

\* addInvoice, lines 561-583: the header insert answers.  The invoice id is
\* the table's key: a second row with it is rejected.
AddInvoiceInsertInvoice(t) ==
  /\ tasks[t] # Idle
  /\ tasks[t].op = "addInvoice"
  /\ tasks[t].pc = "insertInvoice"
  /\ \E accepted \in BOOLEAN :
       LET inv == tasks[t].arg
           ok == accepted /\ ~Has(dbInvoices, inv.id)
           tk == [tasks[t] EXCEPT !.calls = Append(@, Call("insert invoices", ok))]
       IN  IF ok
           THEN /\ dbInvoices' = Append(dbInvoices, InvoiceRow(inv))
                /\ pendInv' = Announce(pendInv, TRUE)
                /\ Goto(t, tk, IF Len(inv.items) > 0 THEN "insertItems" ELSE "updateClient")
                /\ UNCHANGED <<loading, error>>
           ELSE /\ Catch(t, tk, ErrorMessage("Failed to create invoice",
                                             BackendError("insert invoices")))
                /\ UNCHANGED <<dbInvoices, pendInv>>
  /\ UNCHANGED <<dbClients, dbItems, dbAudit, usedCids, snapshot, isInitialized,
                 databaseReady, channel, pendCli, budget>>
  /\ UNCHANGED <<session, form, feedLog>>
  /\ hist' = Logged

\* addInvoice, lines 586-611: the batch insert of the items answers.  An item
\* row needs its header row.
AddInvoiceInsertItems(t) ==
  /\ tasks[t] # Idle
  /\ tasks[t].op = "addInvoice"
  /\ tasks[t].pc = "insertItems"
  /\ \E accepted \in BOOLEAN :
       LET inv == tasks[t].arg
           ok == accepted /\ Has(dbInvoices, inv.id)
           tk == [tasks[t] EXCEPT !.calls = Append(@, Call("insert invoice_items", ok))]
       IN  /\ dbItems' = IF ok THEN dbItems \o ItemRows(inv.id, inv.items) ELSE dbItems
           /\ Goto(t, tk, IF ok THEN "updateClient" ELSE "rollback")
  /\ UNCHANGED <<dbClients, dbInvoices, dbAudit, usedCids, snapshot, StoreFlags,
                 channel, feed, budget>>
  /\ UNCHANGED <<session, form, feedLog>>
  /\ hist' = Logged

\* addInvoice, lines 601-608: the compensating delete answers (its result is
\* not looked at), and the item-insert error is thrown.
AddInvoiceRollback(t) ==
  /\ tasks[t] # Idle
  /\ tasks[t].op = "addInvoice"
  /\ tasks[t].pc = "rollback"
  /\ \E ok \in BOOLEAN :
       LET inv == tasks[t].arg
           tk == [tasks[t] EXCEPT !.calls = Append(@, Call("delete invoices", ok))]
       IN  /\ dbInvoices' = IF ok THEN DeleteById(dbInvoices, inv.id) ELSE dbInvoices
           /\ dbItems' = IF ok THEN DeleteItemsOf(dbItems, inv.id) ELSE dbItems
           /\ pendInv' = Announce(pendInv, ok /\ Has(dbInvoices, inv.id))
           /\ Catch(t, tk, ErrorMessage("Failed to create invoice items",
                                        BackendError("insert invoice_items")))
  /\ UNCHANGED <<dbClients, dbAudit, usedCids, snapshot, isInitialized,
                 databaseReady, channel, pendCli, budget>>
  /\ UNCHANGED <<session, form, feedLog>>
  /\ hist' = Logged

\* addInvoice, line 618: the counter the update statement writes.
NextVisitCount(client) == client.visitCount + 1

\* A counter update whose failure is treated like the item insert's.
AfterUpdateClientRollsBack(tk, ok) ==
  IF ok
  THEN [tk EXCEPT !.pc = "reloadInvoices", !.li = "invoices"]
  ELSE [tk EXCEPT !.pc = "rollback"]

\* An addInvoice that goes from the counter update to the audit insert.
AfterUpdateClientSkipsReload(tk, ok) == [tk EXCEPT !.pc = "audit"]

\* addInvoice, lines 623-629: a failed counter update is logged, and the call
\* goes on to loadInvoices either way.
AfterUpdateClient(tk, ok) == [tk EXCEPT !.pc = "reloadInvoices", !.li = "invoices"]

\* addInvoice, lines 613-629: the counter update answers; loadInvoices starts.
AddInvoiceUpdateClient(t) ==
  /\ tasks[t] # Idle
  /\ tasks[t].op = "addInvoice"
  /\ tasks[t].pc = "updateClient"
  /\ \E ok \in BOOLEAN :
       LET inv == tasks[t].arg
           hit == ok /\ Has(dbClients, inv.client.id)
           tk == [tasks[t] EXCEPT !.calls = Append(@, Call("update clients", ok))]
       IN  /\ dbClients' =
                IF hit
                THEN [dbClients EXCEPT ![Row(dbClients, inv.client.id)].visit_count =
                        NextVisitCount(inv.client)]
                ELSE dbClients
           /\ pendCli' = Announce(pendCli, hit)
           /\ tasks' = [tasks EXCEPT ![t] = AfterUpdateClient(tk, ok)]
           /\ ret' = NoRet
  /\ UNCHANGED <<dbInvoices, dbItems, dbAudit, usedCids, snapshot, StoreFlags,
                 channel, pendInv, budget>>
  /\ UNCHANGED <<session, form, feedLog>>
  /\ hist' = Logged

\* What the pages pass to updateInvoice: a status, or a new item list with its
\* total; fields names the fields the patch holds.
UpdateInvoiceInputs ==
  [fields : {{"status"}}, status : Statuses, items : {<<>>}]
    \cup [fields : {{"items", "total"}}, status : {"pending"}, items : ItemLists \cup {<<>>}]

\* updateInvoice, lines 665-685, up to the await of the header update.
UpdateInvoice(id, updates) ==
  /\ CanStart
  /\ budget' = budget - 1
  /\ loading' = TRUE
  /\ error' = NoError
  /\ tasks' = [tasks EXCEPT ![FirstFree] =
                 NewTask("updateInvoice", "updateInvoice",
                         [id |-> id, fields |-> updates.fields, status |-> updates.status,
                          items |-> updates.items, total |-> CalculateTotal(updates.items)])]
  /\ ret' = NoRet
  /\ UNCHANGED <<backend, snapshot, isInitialized, databaseReady, channel, feed>>
  /\ UNCHANGED <<session, feedLog>>
  /\ hist' = Logged

\* updateInvoice, lines 670-680: the columns the patch sets.
PatchInvoiceRow(row, upd) ==
  [row EXCEPT !.total = IF "total" \in upd.fields THEN ToNumeric(upd.total) ELSE @,
              !.status = IF "status" \in upd.fields THEN upd.status ELSE @]

\* updateInvoice, lines 682-697 and 727-728: the header update answers.
UpdateInvoiceUpdateInvoice(t) ==
  /\ tasks[t] # Idle
  /\ tasks[t].op = "updateInvoice"
  /\ tasks[t].pc = "updateInvoice"
  /\ \E ok \in BOOLEAN :
       LET upd == tasks[t].arg
           hit == ok /\ Has(dbInvoices, upd.id)
           tk == [tasks[t] EXCEPT !.calls = Append(@, Call("update invoices", ok))]
       IN  IF ok
           THEN /\ dbInvoices' =
                     IF hit
                     THEN [dbInvoices EXCEPT ![Row(dbInvoices, upd.id)] = PatchInvoiceRow(@, upd)]
                     ELSE dbInvoices
                /\ pendInv' = Announce(pendInv, hit)
                /\ IF "items" \in upd.fields
                   THEN Goto(t, tk, "deleteItems")
                   ELSE Goto(t, [tk EXCEPT !.li = "invoices"], "reload")
                /\ UNCHANGED <<loading, error>>
           ELSE /\ Catch(t, tk, ErrorMessage("Failed to update invoice",
                                             BackendError("update invoices")))
                /\ UNCHANGED <<dbInvoices, pendInv>>
  /\ UNCHANGED <<dbClients, dbItems, dbAudit, usedCids, snapshot, isInitialized,
                 databaseReady, channel, pendCli, budget>>
  /\ UNCHANGED <<session, form, feedLog>>
  /\ hist' = Logged

\* updateInvoice, lines 694-706 and 727-728: the delete of the old items answers.
UpdateInvoiceDeleteItems(t) ==
  /\ tasks[t] # Idle
  /\ tasks[t].op = "updateInvoice"
  /\ tasks[t].pc = "deleteItems"
  /\ \E ok \in BOOLEAN :
       LET upd == tasks[t].arg
           tk == [tasks[t] EXCEPT !.calls = Append(@, Call("delete invoice_items", ok))]
       IN  IF ok
           THEN /\ dbItems' = DeleteItemsOf(dbItems, upd.id)
                /\ IF Len(upd.items) > 0
                   THEN Goto(t, tk, "insertItems")
                   ELSE Goto(t, [tk EXCEPT !.li = "invoices"], "reload")
                /\ UNCHANGED <<loading, error>>
           ELSE /\ Catch(t, tk, ErrorMessage("Failed to update invoice items",
                                             BackendError("delete invoice_items")))
                /\ UNCHANGED dbItems
  /\ UNCHANGED <<dbClients, dbInvoices, dbAudit, usedCids, snapshot, isInitialized,
                 databaseReady, channel, feed, budget>>
  /\ UNCHANGED <<session, form, feedLog>>
  /\ hist' = Logged

\* updateInvoice, lines 707-728: the insert of the new items answers.
UpdateInvoiceInsertItems(t) ==
  /\ tasks[t] # Idle
  /\ tasks[t].op = "updateInvoice"
  /\ tasks[t].pc = "insertItems"
  /\ \E accepted \in BOOLEAN :
       LET upd == tasks[t].arg
           ok == accepted /\ Has(dbInvoices, upd.id)
           tk == [tasks[t] EXCEPT !.calls = Append(@, Call("insert invoice_items", ok))]
       IN  IF ok
           THEN /\ dbItems' = dbItems \o ItemRows(upd.id, upd.items)
                /\ Goto(t, [tk EXCEPT !.li = "invoices"], "reload")
                /\ UNCHANGED <<loading, error>>
           ELSE /\ Catch(t, tk, ErrorMessage("Failed to update invoice items",
                                             BackendError("insert invoice_items")))
                /\ UNCHANGED dbItems
  /\ UNCHANGED <<dbClients, dbInvoices, dbAudit, usedCids, snapshot, isInitialized,
                 databaseReady, channel, feed, budget>>
  /\ UNCHANGED <<session, form, feedLog>>
  /\ hist' = Logged

\* deleteInvoice, lines 759-763, up to the await of the delete.
DeleteInvoice(id) ==
  /\ CanStart
  /\ budget' = budget - 1
  /\ loading' = TRUE
  /\ error' = NoError
  /\ tasks' = [tasks EXCEPT ![FirstFree] = NewTask("deleteInvoice", "delete", [id |-> id])]
  /\ ret' = NoRet
  /\ UNCHANGED <<backend, snapshot, isInitialized, databaseReady, channel, feed>>
  /\ UNCHANGED <<session, form, feedLog>>
  /\ hist' = Logged

\* A snapshot update that leaves the deleted invoice in the list.
RemoveInvoiceKeepsList(list, id) == list

\* deleteInvoice, line 770: state.invoices.filter((invoice) => invoice.id !== id).
RemoveInvoice(list, id) == SelectSeq(list, LAMBDA invoice : invoice.id # id)

\* deleteInvoice, lines 763-772: the delete answers; the items follow by
\* cascade; the snapshot drops the invoice.
DeleteInvoiceDelete(t) ==
  /\ tasks[t] # Idle
  /\ tasks[t].op = "deleteInvoice"
  /\ tasks[t].pc = "delete"
  /\ \E ok \in BOOLEAN :
       LET id == tasks[t].arg.id
           tk == [tasks[t] EXCEPT !.calls = Append(@, Call("delete invoices", ok))]
       IN  IF ok
           THEN /\ dbInvoices' = DeleteById(dbInvoices, id)
                /\ dbItems' = DeleteItemsOf(dbItems, id)
                /\ pendInv' = Announce(pendInv, Has(dbInvoices, id))
                /\ invoices' = RemoveInvoice(invoices, id)
                /\ loading' = FALSE
                /\ Goto(t, tk, "audit")
                /\ UNCHANGED error
           ELSE /\ Catch(t, tk, ErrorMessage("Failed to delete invoice",
                                             BackendError("delete invoices")))
                /\ UNCHANGED <<dbInvoices, dbItems, pendInv, invoices>>
  /\ UNCHANGED <<dbClients, dbAudit, usedCids, clients, isInitialized,
                 databaseReady, channel, pendCli, budget>>
  /\ UNCHANGED <<session, form, feedLog>>
  /\ hist' = Logged

\* updateInvoiceStatus, lines 882-892, up to the await of the patch.
UpdateInvoiceStatus(id, status) ==
  /\ CanStart
  /\ budget' = budget - 1
  /\ loading' = TRUE
  /\ error' = NoError
  /\ tasks' = [tasks EXCEPT ![FirstFree] =
                 NewTask("updateInvoiceStatus", "patch", [id |-> id, status |-> status])]
  /\ ret' = NoRet
  /\ UNCHANGED <<backend, snapshot, isInitialized, databaseReady, channel, feed>>
  /\ UNCHANGED <<session, form, feedLog>>
  /\ hist' = Logged

\* A status update that leaves the snapshot to the next reload.
SetStatusKeepsList(list, id, status) == list

\* updateInvoiceStatus, lines 899-904: the snapshot with the status set.
SetStatus(list, id, status) ==
  [i \in 1..Len(list) |->
     IF list[i].id = id THEN [list[i] EXCEPT !.status = status] ELSE list[i]]

\* updateInvoiceStatus, lines 886-906: the patch answers; on success the
\* snapshot is patched.
UpdateInvoiceStatusPatch(t) ==
  /\ tasks[t] # Idle
  /\ tasks[t].op = "updateInvoiceStatus"
  /\ tasks[t].pc = "patch"
  /\ \E ok \in BOOLEAN :
       LET arg == tasks[t].arg
           hit == ok /\ Has(dbInvoices, arg.id)
           tk == [tasks[t] EXCEPT !.calls = Append(@, Call("update invoices", ok))]
       IN  IF ok
           THEN /\ dbInvoices' =
                     IF hit
                     THEN [dbInvoices EXCEPT ![Row(dbInvoices, arg.id)].status = arg.status]
                     ELSE dbInvoices
                /\ pendInv' = Announce(pendInv, hit)
                /\ invoices' = SetStatus(invoices, arg.id, arg.status)
                /\ loading' = FALSE
                /\ Goto(t, tk, "audit")
                /\ UNCHANGED error
           ELSE /\ Catch(t, tk, ErrorMessage("Failed to update invoice status",
                                             BackendError("update invoices")))
                /\ UNCHANGED <<dbInvoices, pendInv, invoices>>
  /\ UNCHANGED <<dbClients, dbItems, dbAudit, usedCids, clients, isInitialized,
                 databaseReady, channel, pendCli, budget>>
  /\ UNCHANGED <<session, form, feedLog>>
  /\ hist' = Logged

\* What the invoice form passes to addClient (lines 155-162 of the form).
AddClientInputs == [phone : Phones, address : {""}, visitCount : {0}]

\* addClient, lines 254-269, up to the await of the insert.  The backend
\* generates the id: the universe of ids bounds the clients ever created.
AddClient(clientData) ==
  /\ CanStart
  /\ usedCids # ClientIds
  /\ budget' = budget - 1
  /\ loading' = TRUE
  /\ error' = NoError
  /\ tasks' = [tasks EXCEPT ![FirstFree] = NewTask("addClient", "insert", clientData)]
  /\ ret' = NoRet
  /\ UNCHANGED <<backend, snapshot, isInitialized, databaseReady, channel, feed>>
  /\ UNCHANGED <<session, feedLog>>
  /\ hist' = Logged

\* addClient, lines 258-291 and 312-322: the insert answers.  On failure the
\* call returns null and does not throw.
AddClientInsert(t) ==
  /\ tasks[t] # Idle
  /\ tasks[t].op = "addClient"
  /\ tasks[t].pc = "insert"
  /\ \E accepted \in BOOLEAN :
       LET ok == accepted /\ usedCids # ClientIds
           tk == [tasks[t] EXCEPT !.calls = Append(@, Call("insert clients", ok))]
       IN  IF ok
           THEN LET id == CHOOSE c \in ClientIds \ usedCids :
                            c = "c1" \/ "c1" \in usedCids
                    row == ClientRow(id, tasks[t].arg)
                    newClient == MapClient(row)
                IN  /\ dbClients' = Append(dbClients, row)
                    /\ usedCids' = usedCids \cup {id}
                    /\ pendCli' = Announce(pendCli, TRUE)
                    /\ clients' = <<newClient>> \o clients
                    /\ loading' = FALSE
                    /\ Goto(t, [tk EXCEPT !.val = newClient], "audit")
                    /\ UNCHANGED error
           ELSE /\ Catch(t, tk, ErrorMessage("Failed to add client",
                                             BackendError("insert clients")))
                /\ UNCHANGED <<dbClients, usedCids, pendCli, clients>>
  /\ UNCHANGED <<dbInvoices, dbItems, dbAudit, invoices, isInitialized,
                 databaseReady, channel, pendInv, budget>>
  /\ UNCHANGED <<session, form, feedLog>>
  /\ hist' = Logged

\* updateClient, lines 325-344, up to the await of the update.
UpdateClient(id, updates) ==
  /\ CanStart
  /\ budget' = budget - 1
  /\ loading' = TRUE
  /\ error' = NoError
  /\ tasks' = [tasks EXCEPT ![FirstFree] =
                 NewTask("updateClient", "update", [id |-> id, phone |-> updates.phone])]
  /\ ret' = NoRet
  /\ UNCHANGED <<backend, snapshot, isInitialized, databaseReady, channel, feed>>
  /\ UNCHANGED <<session, form, feedLog>>
  /\ hist' = Logged

\* updateClient, lines 350-355: the snapshot with the patch merged in.
MergeClient(list, id, upd) ==
  [i \in 1..Len(list) |->
     IF list[i].id = id THEN [list[i] EXCEPT !.phone = upd.phone] ELSE list[i]]

\* updateClient, lines 341-357: the update answers.
UpdateClientUpdate(t) ==
  /\ tasks[t] # Idle
  /\ tasks[t].op = "updateClient"
  /\ tasks[t].pc = "update"
  /\ \E ok \in BOOLEAN :
       LET arg == tasks[t].arg
           hit == ok /\ Has(dbClients, arg.id)
           tk == [tasks[t] EXCEPT !.calls = Append(@, Call("update clients", ok))]
       IN  IF ok
           THEN /\ dbClients' =
                     IF hit
                     THEN [dbClients EXCEPT ![Row(dbClients, arg.id)].phone = arg.phone]
                     ELSE dbClients
                /\ pendCli' = Announce(pendCli, hit)
                /\ clients' = MergeClient(clients, arg.id, arg)
                /\ loading' = FALSE
                /\ Goto(t, tk, "audit")
                /\ UNCHANGED error
           ELSE /\ Catch(t, tk, ErrorMessage("Failed to update client",
                                             BackendError("update clients")))
                /\ UNCHANGED <<dbClients, pendCli, clients>>
  /\ UNCHANGED <<dbInvoices, dbItems, dbAudit, usedCids, invoices, isInitialized,
                 databaseReady, channel, pendInv, budget>>
  /\ UNCHANGED <<session, form, feedLog>>
  /\ hist' = Logged

\* deleteClient, lines 387-391, up to the await of the delete.
DeleteClient(id) ==
  /\ CanStart
  /\ budget' = budget - 1
  /\ loading' = TRUE
  /\ error' = NoError
  /\ tasks' = [tasks EXCEPT ![FirstFree] = NewTask("deleteClient", "delete", [id |-> id])]
  /\ ret' = NoRet
  /\ UNCHANGED <<backend, snapshot, isInitialized, databaseReady, channel, feed>>
  /\ UNCHANGED <<session, form, feedLog>>
  /\ hist' = Logged

\* A removal that leaves the snapshot to the next reload.
RemoveClientKeepsList(list, id) == list

\* deleteClient, line 398: state.clients.filter((client) => client.id !== id).
RemoveClient(list, id) == SelectSeq(list, LAMBDA client : client.id # id)

\* deleteClient, lines 391-400: the delete answers; the snapshot drops the
\* client and keeps its invoices.
DeleteClientDelete(t) ==
  /\ tasks[t] # Idle
  /\ tasks[t].op = "deleteClient"
  /\ tasks[t].pc = "delete"
  /\ \E ok \in BOOLEAN :
       LET id == tasks[t].arg.id
           tk == [tasks[t] EXCEPT !.calls = Append(@, Call("delete clients", ok))]
       IN  IF ok
           THEN /\ dbClients' = DeleteById(dbClients, id)
                /\ pendCli' = Announce(pendCli, Has(dbClients, id))
                /\ clients' = RemoveClient(clients, id)
                /\ loading' = FALSE
                /\ Goto(t, tk, "audit")
                /\ UNCHANGED error
           ELSE /\ Catch(t, tk, ErrorMessage("Failed to delete client",
                                             BackendError("delete clients")))
                /\ UNCHANGED <<dbClients, pendCli, clients>>
  /\ UNCHANGED <<dbInvoices, dbItems, dbAudit, usedCids, invoices, isInitialized,
                 databaseReady, channel, pendInv, budget>>
  /\ UNCHANGED <<session, form, feedLog>>
  /\ hist' = Logged

\* The audit row each writer appends.
AuditAction(op) ==
  CASE op \in {"addInvoice", "addClient"} -> "create"
    [] op \in {"updateInvoice", "updateClient"} -> "update"
    [] op \in {"deleteInvoice", "deleteClient"} -> "delete"
    [] op = "updateInvoiceStatus" -> "status_update"

AuditEntity(op) ==
  IF op \in {"addClient", "updateClient", "deleteClient"} THEN "client" ELSE "invoice"

AuditRow(tk) ==
  [action |-> AuditAction(tk.op), entity_type |-> AuditEntity(tk.op),
   entity_id |-> IF tk.op = "addClient" THEN tk.val.id ELSE tk.arg.id]

\* An audit insert whose failure fails the writer.
AfterAuditPropagates(tk, ok) == Return(tk, ~ok, ~ok, tk.val)

\* What a writer returns after its audit insert: the try around the insert
\* has an empty catch.
AfterAudit(tk, ok) == Return(tk, FALSE, FALSE, tk.val)

\* The try { insert into audit_logs } catch {} that ends every writer (lines
\* 299-309, 360-370, 403-412, 636-646, 732-742, 775-784, 909-919), and the
\* writer's return.
AuditLogInsert(t) ==
  /\ tasks[t] # Idle
  /\ tasks[t].pc = "audit"
  /\ \E ok \in BOOLEAN :
       LET tk == [tasks[t] EXCEPT !.calls = Append(@, Call("insert audit_logs", ok))]
       IN  /\ dbAudit' = IF ok THEN Append(dbAudit, AuditRow(tk)) ELSE dbAudit
           /\ ret' = AfterAudit(tk, ok)
  /\ tasks' = [tasks EXCEPT ![t] = Idle]
  /\ UNCHANGED <<dbClients, dbInvoices, dbItems, usedCids, snapshot, StoreFlags,
                 channel, feed, budget>>
  /\ UNCHANGED <<session, form, feedLog>>
  /\ hist' = Logged

\* ------------------------------------------------- session and lifecycle

\* A call that runs to its end without awaiting anything.
Sync(op) == Return(NewTask(op, "idle", Null), FALSE, FALSE, NoClient)

\* setCurrentUser, lines 83-91, up to the await of the lookup.
SetCurrentUser(raw, name) ==
  /\ CanStart
  /\ budget' = budget - 1
  /\ tasks' = [tasks EXCEPT ![FirstFree] =
                 NewTask("setCurrentUser", "lookup", [phone |-> Trim(raw), name |-> name])]
  /\ ret' = NoRet
  /\ UNCHANGED <<backend, snapshot, StoreFlags, channel, feed, session, form, feedLog>>
  /\ hist' = Logged

\* setCurrentUser, line 105: existing.name || name || null.
ResolvedName(account, name) ==
  IF Truthy(account.name) THEN account.name
  ELSE IF Truthy(name) THEN name
  ELSE Null

\* setCurrentUser, lines 107-110: the entries of localStorage after the call;
\* the name is written only when there is one.
Persisted(phone, resolvedName) ==
  <<phone, IF Truthy(resolvedName) THEN resolvedName ELSE lsName>>

\* A sign-in that remembers the phone typed even when no account has it.
SessionAfterLookupKeepsPhone(arg, existing) ==
  IF existing
  THEN LET resolvedName == ResolvedName(Account(arg.phone), arg.name)
       IN  <<arg.phone, resolvedName>> \o Persisted(arg.phone, resolvedName)
  ELSE <<arg.phone, Null, arg.phone, lsName>>

\* setCurrentUser, lines 96-112: the session fields and the entries of
\* localStorage after the lookup; without an account the call returns early.
SessionAfterLookup(arg, existing) ==
  IF existing
  THEN LET resolvedName == ResolvedName(Account(arg.phone), arg.name)
       IN  <<arg.phone, resolvedName>> \o Persisted(arg.phone, resolvedName)
  ELSE session

\* setCurrentUser, lines 87-112: the lookup answers.  A lookup error leaves
\* no row: the account is not found.
SetCurrentUserLookup(t) ==
  /\ tasks[t] # Idle
  /\ tasks[t].op = "setCurrentUser"
  /\ tasks[t].pc = "lookup"
  /\ \E ok \in BOOLEAN :
       LET arg == tasks[t].arg
           existing == ok /\ HasAccount(arg.phone)
           tk == [tasks[t] EXCEPT !.calls = Append(@, Call("select users", ok))]
           after == SessionAfterLookup(arg, existing)
       IN  /\ currentUserPhone' = after[1]
           /\ currentUserName' = after[2]
           /\ lsPhone' = after[3]
           /\ lsName' = after[4]
           /\ ret' = Return(tk, FALSE, ~existing, NoClient)
  /\ tasks' = [tasks EXCEPT ![t] = Idle]
  /\ UNCHANGED <<backend, snapshot, StoreFlags, channel, feed, budget, form, feedLog>>
  /\ hist' = Logged

\* signOut, lines 123-129.
SignOut ==
  /\ budget > 0
  /\ budget' = budget - 1
  /\ lsPhone' = Null
  /\ lsName' = Null
  /\ currentUserPhone' = Null
  /\ currentUserName' = Null
  /\ ret' = Sync("signOut")
  /\ UNCHANGED <<backend, snapshot, StoreFlags, channel, feed, tasks, form, feedLog>>
  /\ hist' = Logged

\* reset, lines 71-81: the subscription and its handle are not in the list.
Reset ==
  /\ budget > 0
  /\ budget' = budget - 1
  /\ invoices' = <<>>
  /\ clients' = <<>>
  /\ loading' = FALSE
  /\ error' = NoError
  /\ isInitialized' = FALSE
  /\ databaseReady' = FALSE
  /\ currentUserPhone' = Null
  /\ currentUserName' = Null
  /\ ret' = Sync("reset")
  /\ UNCHANGED <<backend, channel, feed, tasks, lsPhone, lsName, form, feedLog>>
  /\ hist' = Logged

\* subscribeToRealTimeUpdates, lines 840-872: supabase.channel() makes a
\* channel, subscribe() opens it, and the handle is overwritten.
SubscribeToRealTimeUpdates ==
  /\ budget > 0
  /\ budget' = budget - 1
  /\ openChannels' = openChannels + 1
  /\ realtimeChannel' = openChannels + 1
  /\ ret' = Sync("subscribeToRealTimeUpdates")
  /\ UNCHANGED <<backend, snapshot, StoreFlags, feed, tasks, session, form, feedLog>>
  /\ hist' = Logged

\* unsubscribeFromRealTimeUpdates, lines 874-880: the channel of the handle
\* is removed, when there is a handle.
UnsubscribeFromRealTimeUpdates ==
  /\ budget > 0
  /\ budget' = budget - 1
  /\ IF realtimeChannel # NoChannel
     THEN /\ openChannels' = openChannels - 1
          /\ realtimeChannel' = NoChannel
     ELSE UNCHANGED channel
  /\ ret' = Sync("unsubscribeFromRealTimeUpdates")
  /\ UNCHANGED <<backend, snapshot, StoreFlags, feed, tasks, session, form, feedLog>>
  /\ hist' = Logged

\* ------------------------------------------------------ the invoice form

\* The form as it opens, with one line filled in, and no submission.
NoData == [clientPhone |-> Null, items |-> <<>>]
FormAtRest == [pc |-> "idle", items |-> <<ShirtLine>>, data |-> NoData, id |-> ""]

\* The user edits the item lines: the fields stay enabled while a submission
\* runs, only the button is disabled.
EditItems(items) ==
  /\ items # form.items
  /\ form' = [form EXCEPT !.items = items]
  /\ ret' = NoRet
  /\ UNCHANGED <<backend, snapshot, StoreFlags, channel, feed, tasks, budget,
                 session, feedLog>>
  /\ hist' = Logged

\* onSubmit, line 151: the client of that phone in the snapshot.
FindClient(phone) ==
  IF \E i \in 1..Len(clients) : clients[i].phone = phone
  THEN clients[CHOOSE i \in 1..Len(clients) :
                 /\ clients[i].phone = phone
                 /\ \A j \in 1..(i - 1) : clients[j].phone # phone]
  ELSE NoClient

\* onSubmit, lines 176-180: the items of the submitted lines.
WithTotalPrice(items) ==
  [i \in 1..Len(items) |->
     [description |-> items[i].description, quantity |-> items[i].quantity,
      unitPrice |-> items[i].unitPrice,
      totalPrice |-> items[i].quantity * items[i].unitPrice]]

\* onSubmit, lines 170-187: the items come from the submitted data, the total
\* from calculateTotal(), which reads the lines on screen (form.watch).
InvoiceData(id, client, data, watched) ==
  [id |-> id, client |-> client, items |-> WithTotalPrice(data.items),
   status |-> "pending", total |-> CalculateTotal(watched)]

\* The form is not working on a submission: it has just opened, its last
\* submission was saved (onSave was called), or it failed (an error toast).
AtRest == form.pc \in {"idle", "saved", "failed"}

\* onSubmit without an editingId, lines 109-162 and 170-197, up to its first
\* await.  The button is disabled while the store is loading.  A known
\* client: the form calls addInvoice at once.  Otherwise it calls addClient
\* and waits for it.
OnSubmit(phone, id) ==
  /\ AtRest
  /\ ~loading
  /\ LET data == [clientPhone |-> phone, items |-> form.items]
         client == FindClient(phone)
     IN  IF client # NoClient
         THEN /\ AddInvoice(InvoiceData(id, client, data, form.items))
              /\ form' = [form EXCEPT !.pc = "write"]
         ELSE /\ budget > 1
              /\ AddClient([phone |-> phone, address |-> "", visitCount |-> 0])
              /\ form' = [form EXCEPT !.pc = "addClient", !.data = data, !.id = id]

\* onSubmit with an editingId, lines 109-153 and 170-192: the form of an
\* invoice of the snapshot, whose client the snapshot holds, calls
\* updateInvoice with the whole invoice.
OnSubmitEdit(editingId) ==
  /\ AtRest
  /\ ~loading
  /\ Has(invoices, editingId)
  /\ FindClient(invoices[Row(invoices, editingId)].client.phone) # NoClient
  /\ UpdateInvoice(editingId,
                   [fields |-> {"status", "items", "total"},
                    status |-> invoices[Row(invoices, editingId)].status,
                    items |-> WithTotalPrice(form.items)])
  /\ form' = [form EXCEPT !.pc = "write"]

\* The addClient call of the form has just returned.
AddClientReturned == form.pc = "addClient" /\ ret.op = "addClient"

\* onSubmit, lines 163-197: addClient has returned.  Without a client the
\* form gives up; with one it builds the invoice and calls addInvoice.
OnSubmitResume ==
  /\ AddClientReturned
  /\ IF ret.value = NoClient
     THEN /\ form' = [form EXCEPT !.pc = "failed", !.data = NoData, !.id = ""]
          /\ ret' = NoRet
          /\ UNCHANGED <<backend, snapshot, StoreFlags, channel, feed, tasks,
                         budget, session, feedLog>>
          /\ hist' = Logged
     ELSE /\ form' = [form EXCEPT !.pc = "write", !.data = NoData, !.id = ""]
          /\ AddInvoice(InvoiceData(form.id, ret.value, form.data, form.items))

\* The addInvoice or updateInvoice call of the form has just returned.
WriteReturned == form.pc = "write" /\ ret.op \in {"addInvoice", "updateInvoice"}

\* onSubmit, lines 191-210: the store call has returned.  If it raised, the
\* catch block shows an error; otherwise the success toast is shown and onSave
\* is called, which closes the form.
OnSubmitDone ==
  /\ WriteReturned
  /\ form' = IF ret.raised
             THEN [form EXCEPT !.pc = "failed"]
             ELSE [FormAtRest EXCEPT !.pc = "saved"]
  /\ ret' = NoRet
  /\ UNCHANGED <<backend, snapshot, StoreFlags, channel, feed, tasks, budget,
                 session, feedLog>>
  /\ hist' = Logged

\* onSubmit has a continuation to run.
FormResumes == AddClientReturned \/ WriteReturned

\* ------------------------------------------------------ the specification

\* The backend as the application may find it: empty; one client with one
\* invoice; the same with a second invoice whose client row is gone.
Jean == [id |-> "c1", phone |-> "+250788000000", address |-> Null, visit_count |-> 1]
FirstInvoice == [id |-> "INV-1", client_id |-> "c1", total |-> ToNumeric(2000), status |-> "pending"]
OrphanInvoice == [id |-> "INV-2", client_id |-> "c2", total |-> ToNumeric(500), status |-> "pending"]

InitialBackends ==
  { [clients |-> <<>>, invoices |-> <<>>, items |-> <<>>, used |-> {}],
    [clients |-> <<Jean>>, invoices |-> <<FirstInvoice>>,
     items |-> ItemRows("INV-1", <<Shirt>>), used |-> {"c1"}],
    [clients |-> <<Jean>>, invoices |-> <<FirstInvoice, OrphanInvoice>>,
     items |-> ItemRows("INV-1", <<Shirt>>) \o ItemRows("INV-2", <<Suit>>),
     used |-> {"c1", "c2"}] }

\* The store as created (lines 58-67), over some backend.
Start ==
  /\ \E b \in InitialBackends :
       /\ dbClients = b.clients
       /\ dbInvoices = b.invoices
       /\ dbItems = b.items
       /\ usedCids = b.used
  /\ dbAudit = <<>>
  /\ invoices = <<>>
  /\ clients = <<>>
  /\ loading = FALSE
  /\ error = NoError
  /\ isInitialized = FALSE
  /\ databaseReady = FALSE
  /\ realtimeChannel = NoChannel
  /\ openChannels = 0
  /\ tasks = [t \in TaskIds |-> Idle]
  /\ pendInv = 0
  /\ pendCli = 0
  /\ budget = MaxOps
  /\ ret = NoRet
  /\ currentUserPhone = Null
  /\ currentUserName = Null
  /\ lsPhone = Null
  /\ lsName = Null
  /\ form = FormAtRest

Init == Start /\ feedLog = "off" /\ hist = <<>>

\* The loads the change feed started are the only calls in flight.
NoCallInFlight == \A t \in TaskIds : tasks[t].pc \in {"idle", "feed", "detached"}

\* One user: a store call starts when the one before it has returned, as the
\* pages disable their buttons while the loading flag is set.  The change
\* feed's reloads run beside it.
Next ==
  \/ NoCallInFlight /\ InitializeDatabase
  \/ NoCallInFlight /\ UNCHANGED form
                    /\ \E input \in AddInvoiceInputs : AddInvoice(input)
  \/ NoCallInFlight /\ UNCHANGED form
                    /\ \E id \in Ids(invoices), updates \in UpdateInvoiceInputs :
                         UpdateInvoice(id, updates)
  \/ NoCallInFlight /\ \E id \in Ids(invoices) : DeleteInvoice(id)
  \/ NoCallInFlight /\ \E id \in Ids(invoices), status \in Statuses :
                         UpdateInvoiceStatus(id, status)
  \/ NoCallInFlight /\ UNCHANGED form
                    /\ \E clientData \in AddClientInputs : AddClient(clientData)
  \/ NoCallInFlight /\ \E id \in Ids(clients), updates \in [phone : Phones] :
                         UpdateClient(id, updates)
  \/ NoCallInFlight /\ \E id \in Ids(clients) : DeleteClient(id)
  \/ \E t \in TaskIds : InitializeDatabaseCheck(t)
  \/ \E t \in TaskIds : LoadInvoicesFetchInvoices(t)
  \/ \E t \in TaskIds : LoadInvoicesFetchClients(t)
  \/ \E t \in TaskIds : LoadInvoicesFetchItems(t)
  \/ \E t \in TaskIds : LoadClientsFetch(t)
  \/ \E t \in TaskIds : AddInvoiceInsertInvoice(t)
  \/ \E t \in TaskIds : AddInvoiceInsertItems(t)
  \/ \E t \in TaskIds : AddInvoiceRollback(t)
  \/ \E t \in TaskIds : AddInvoiceUpdateClient(t)
  \/ \E t \in TaskIds : UpdateInvoiceUpdateInvoice(t)
  \/ \E t \in TaskIds : UpdateInvoiceDeleteItems(t)
  \/ \E t \in TaskIds : UpdateInvoiceInsertItems(t)
  \/ \E t \in TaskIds : DeleteInvoiceDelete(t)
  \/ \E t \in TaskIds : UpdateInvoiceStatusPatch(t)
  \/ \E t \in TaskIds : AddClientInsert(t)
  \/ \E t \in TaskIds : UpdateClientUpdate(t)
  \/ \E t \in TaskIds : DeleteClientDelete(t)
  \/ \E t \in TaskIds : AuditLogInsert(t)
  \/ NotifyInvoices
  \/ NotifyClients

Spec == Init /\ [][Next]_vars

\* Another session, or an edit made in the backend's console, changes the
\* phone of a client row: the statement of updateClient, lines 341-348, issued
\* elsewhere.  The change is announced to this store's subscription.
OutOfBandUpdateClient(id, phone) ==
  /\ budget > 0
  /\ Has(dbClients, id)
  /\ dbClients[Row(dbClients, id)].phone # phone
  /\ budget' = budget - 1
  /\ dbClients' = [dbClients EXCEPT ![Row(dbClients, id)].phone = phone]
  /\ pendCli' = Announce(pendCli, TRUE)
  /\ ret' = NoRet
  /\ UNCHANGED <<dbInvoices, dbItems, dbAudit, usedCids, snapshot, StoreFlags,
                 channel, pendInv, tasks, session, form, feedLog>>
  /\ hist' = Logged

\* Another session changes the status of an invoice: the statement of
\* updateInvoiceStatus, lines 886-893, issued elsewhere.
OutOfBandUpdateInvoiceStatus(id, status) ==
  /\ budget > 0
  /\ Has(dbInvoices, id)
  /\ dbInvoices[Row(dbInvoices, id)].status # status
  /\ budget' = budget - 1
  /\ dbInvoices' = [dbInvoices EXCEPT ![Row(dbInvoices, id)].status = status]
  /\ pendInv' = Announce(pendInv, TRUE)
  /\ ret' = NoRet
  /\ UNCHANGED <<dbClients, dbItems, dbAudit, usedCids, snapshot, StoreFlags,
                 channel, pendCli, tasks, session, form, feedLog>>
  /\ hist' = Logged

\* The change feed: a store that is initialized, its own client edits, the
\* writes of other sessions, and the reloads the notifications start.  The
\* failures of the reloads are kept in feedLog.
FeedInit == Start /\ feedLog = "clean" /\ hist = <<>>

FeedNext ==
  \/ NoCallInFlight /\ InitializeDatabase
  \/ NoCallInFlight /\ \E id \in Ids(clients), updates \in [phone : Phones] :
                         UpdateClient(id, updates)
  \/ \E id \in ClientIds, phone \in Phones : OutOfBandUpdateClient(id, phone)
  \/ \E id \in InvoiceIds, status \in Statuses : OutOfBandUpdateInvoiceStatus(id, status)
  \/ \E t \in TaskIds : InitializeDatabaseCheck(t)
  \/ \E t \in TaskIds : LoadInvoicesFetchInvoices(t)
  \/ \E t \in TaskIds : LoadInvoicesFetchClients(t)
  \/ \E t \in TaskIds : LoadInvoicesFetchItems(t)
  \/ \E t \in TaskIds : LoadClientsFetch(t)
  \/ \E t \in TaskIds : UpdateClientUpdate(t)
  \/ \E t \in TaskIds : AuditLogInsert(t)
  \/ NotifyInvoices
  \/ NotifyClients

FeedSpec == FeedInit /\ [][FeedNext]_vars

\* The invoice form on a store that was initialized or not: its create path
\* and its edit path.  A continuation of onSubmit runs as soon as the call it
\* awaits returns.  The reloads of the change feed are left to FeedSpec.
FormNext ==
  \/ ~FormResumes /\ NoCallInFlight /\ InitializeDatabase
  \/ ~FormResumes /\ NoCallInFlight
        /\ \E phone \in Phones, id \in InvoiceIds : OnSubmit(phone, id)
  \/ ~FormResumes /\ NoCallInFlight /\ \E id \in InvoiceIds : OnSubmitEdit(id)
  \/ ~FormResumes /\ \E items \in FormItemLists : EditItems(items)
  \/ OnSubmitResume
  \/ OnSubmitDone
  \/ ~FormResumes /\ \E t \in TaskIds : InitializeDatabaseCheck(t)
  \/ ~FormResumes /\ \E t \in TaskIds : LoadInvoicesFetchInvoices(t)
  \/ ~FormResumes /\ \E t \in TaskIds : LoadInvoicesFetchClients(t)
  \/ ~FormResumes /\ \E t \in TaskIds : LoadInvoicesFetchItems(t)
  \/ ~FormResumes /\ \E t \in TaskIds : LoadClientsFetch(t)
  \/ ~FormResumes /\ \E t \in TaskIds : AddClientInsert(t)
  \/ ~FormResumes /\ \E t \in TaskIds : AddInvoiceInsertInvoice(t)
  \/ ~FormResumes /\ \E t \in TaskIds : AddInvoiceInsertItems(t)
  \/ ~FormResumes /\ \E t \in TaskIds : AddInvoiceRollback(t)
  \/ ~FormResumes /\ \E t \in TaskIds : AddInvoiceUpdateClient(t)
  \/ ~FormResumes /\ \E t \in TaskIds : UpdateInvoiceUpdateInvoice(t)
  \/ ~FormResumes /\ \E t \in TaskIds : UpdateInvoiceDeleteItems(t)
  \/ ~FormResumes /\ \E t \in TaskIds : UpdateInvoiceInsertItems(t)
  \/ ~FormResumes /\ \E t \in TaskIds : AuditLogInsert(t)

FormSpec == Init /\ [][FormNext]_vars

\* The session holder and the store's lifecycle: the calls a page makes when
\* it mounts, signs a user in or out, and unmounts.  No write is made, so the
\* change feed is silent.
LifecycleNext ==
  \/ NoCallInFlight /\ InitializeDatabase
  \/ NoCallInFlight /\ \E raw \in RawPhones, name \in CallerNames : SetCurrentUser(raw, name)
  \/ SignOut
  \/ Reset
  \/ SubscribeToRealTimeUpdates
  \/ UnsubscribeFromRealTimeUpdates
  \/ \E t \in TaskIds : InitializeDatabaseCheck(t)
  \/ \E t \in TaskIds : InitializeDatabaseHydrate(t)
  \/ \E t \in TaskIds : SetCurrentUserLookup(t)
  \/ \E t \in TaskIds : LoadInvoicesFetchInvoices(t)
  \/ \E t \in TaskIds : LoadInvoicesFetchClients(t)
  \/ \E t \in TaskIds : LoadInvoicesFetchItems(t)
  \/ \E t \in TaskIds : LoadClientsFetch(t)

LifecycleSpec == Init /\ [][LifecycleNext]_vars

\* --------------------------------------------------------- the properties

\* The call whose statement answered in this step, and its statement history
\* after the step.
Stepped(t) ==
  <<tasks'[t].pc, tasks'[t].li, tasks'[t].lc, tasks'[t].calls>>
    # <<tasks[t].pc, tasks[t].li, tasks[t].lc, tasks[t].calls>>
StepCalls(t) == IF ret'.op # "none" THEN ret'.calls ELSE tasks'[t].calls

Last(s) == s[Len(s)]
Called(r, stmt, ok) == \E i \in 1..Len(r.calls) : r.calls[i] = <<stmt, ok>>
Issued(r, stmt) == Called(r, stmt, TRUE) \/ Called(r, stmt, FALSE)
Selects == {"select invoices", "select clients", "select invoice_items"}
SelectFailed(r) == \E stmt \in Selects : Called(r, stmt, FALSE)
Returned(op) == ret.op = op

\* What a load of the tables as they stand would publish.
LoadNow == BuildInvoices(Reverse(dbInvoices), dbClients, dbItems)

ItemInsertError == <<"Failed to create invoice items", "backend", "insert invoice_items">>

\* addInvoice has returned after its header insert succeeded and its item
\* insert failed.
ItemInsertFailed ==
  /\ Returned("addInvoice")
  /\ Called(ret, "insert invoices", TRUE)
  /\ Called(ret, "insert invoice_items", FALSE)

\* C1 as stated: whenever addInvoice inserts the header and then fails to
\* insert the items, the header row is gone once the call has returned (a load
\* does not return it) and the error surfaced is the item-insert error.
C1_RollbackAlways ==
  ItemInsertFailed =>
    /\ ~Has(dbInvoices, ret.arg.id)
    /\ ~Has(LoadNow, ret.arg.id)
    /\ ret.raised
    /\ error = ItemInsertError

\* C1 as amended: the error surfaced (flag and rethrow) is always the
\* item-insert error; the compensating delete is always issued; the header
\* row is gone, and a load does not return it, when that delete succeeds; the
\* header row is still there when that delete fails.
C1_RollbackWhenDeleteSucceeds ==
  ItemInsertFailed =>
    /\ ret.raised
    /\ error = ItemInsertError
    /\ ~loading
    /\ Issued(ret, "delete invoices")
    /\ Called(ret, "delete invoices", TRUE) =>
         ~Has(dbInvoices, ret.arg.id) /\ ~Has(LoadNow, ret.arg.id)
    /\ Called(ret, "delete invoices", FALSE) => Has(dbInvoices, ret.arg.id)

C1_Witness == ItemInsertFailed /\ Called(ret, "delete invoices", TRUE)

\* The store beside its change feed, with the history of the tables kept:
\* the user initializes the store and edits invoices, one call after the
\* other, while the reloads the notifications start run beside the calls.
JoinInit == Start /\ feedLog = "off" /\ hist = <<Tables>>

JoinNext ==
  \/ NoCallInFlight /\ InitializeDatabase
  \/ NoCallInFlight /\ UNCHANGED form
                    /\ \E id \in Ids(invoices), updates \in UpdateInvoiceInputs :
                         UpdateInvoice(id, updates)
  \/ \E t \in TaskIds : InitializeDatabaseCheck(t)
  \/ \E t \in TaskIds : LoadInvoicesFetchInvoices(t)
  \/ \E t \in TaskIds : LoadInvoicesFetchClients(t)
  \/ \E t \in TaskIds : LoadInvoicesFetchItems(t)
  \/ \E t \in TaskIds : LoadClientsFetch(t)
  \/ \E t \in TaskIds : UpdateInvoiceUpdateInvoice(t)
  \/ \E t \in TaskIds : UpdateInvoiceDeleteItems(t)
  \/ \E t \in TaskIds : UpdateInvoiceInsertItems(t)
  \/ \E t \in TaskIds : AuditLogInsert(t)
  \/ NotifyInvoices

JoinSpec == JoinInit /\ [][JoinNext]_vars

\* C2: for a client whose stored visit count is N when addInvoice is called,
\* and whose counter update succeeds, the snapshot after the reload that ends
\* addInvoice shows visitCount N+1.
C2_VisitCounter ==
  ( /\ Returned("addInvoice")
    /\ ~ret.failed
    /\ Called(ret, "update clients", TRUE)
    /\ Has(dbClients, ret.arg.client.id) )
  => /\ Has(clients, ret.arg.client.id)
     /\ clients[Row(clients, ret.arg.client.id)].visitCount = ret.stored + 1

\* The second of two addInvoice calls for one client has returned: the first
\* raised the stored count and its reload failed, the second wrote the count
\* of the snapshot plus one, and the snapshot after its reload shows the
\* count that was stored when it was called.
C2_Witness ==
  /\ Returned("addInvoice")
  /\ ~ret.failed
  /\ Called(ret, "update clients", TRUE)
  /\ ret.stored = ret.arg.client.visitCount + 1
  /\ Has(clients, ret.arg.client.id)
  /\ clients[Row(clients, ret.arg.client.id)].visitCount = ret.stored

NoLoadInProgress ==
  \A t \in TaskIds : tasks[t].li \in {"none", "ok", "err"} /\ tasks[t].lc \in {"none", "ok", "err"}

\* C3: whenever no load is in progress, every invoice of the snapshot has a
\* client whose id is the id of a client of the snapshot.
C3_InvoiceClientInSnapshot ==
  NoLoadInProgress =>
    \A i \in 1..Len(invoices) : \E j \in 1..Len(clients) : clients[j].id = invoices[i].client.id

\* deleteClient has returned success and the snapshot still holds an invoice
\* of the deleted client.
C3_Witness ==
  /\ Returned("deleteClient")
  /\ ~ret.failed
  /\ NoLoadInProgress
  /\ ~Has(clients, ret.arg.id)
  /\ \E i \in 1..Len(invoices) : invoices[i].client.id = ret.arg.id

\* The rows of a table that a header's key selects, in table order.
IndicesOf(itemData, id) == {j \in 1..Len(itemData) : itemData[j].invoice_id = id}
NthIndex(idx, n) == CHOOSE j \in idx : Cardinality({x \in idx : x <= j}) = n

ClientMatches(client, row) ==
  /\ client.id = row.id
  /\ client.phone = row.phone
  /\ client.visitCount = row.visit_count
  /\ client.address = (IF row.address = "null" THEN "" ELSE row.address)

ItemsMatch(items, itemData, id) ==
  LET idx == IndicesOf(itemData, id)
  IN  /\ Len(items) = Cardinality(idx)
      /\ \A n \in 1..Len(items) :
           LET row == itemData[NthIndex(idx, n)]
           IN  /\ items[n].description = row.description
               /\ items[n].quantity = row.quantity
               /\ <<"numeric", items[n].unitPrice>> = row.unit_price
               /\ <<"numeric", items[n].totalPrice>> = row.total_price

Orphans(invData, cliData) ==
  {i \in 1..Len(invData) : \A j \in 1..Len(cliData) : cliData[j].id # invData[i].client_id}

JoinCorrect(invData, cliData, itemData, result) ==
  /\ \A i \in 1..Len(invData) :
       LET hits == {k \in 1..Len(result) : result[k].id = invData[i].id}
       IN  IF i \in Orphans(invData, cliData)
           THEN hits = {}
           ELSE /\ Cardinality(hits) = 1
                /\ \A k \in hits :
                     /\ \E j \in 1..Len(cliData) :
                          /\ cliData[j].id = invData[i].client_id
                          /\ ClientMatches(result[k].client, cliData[j])
                     /\ ItemsMatch(result[k].items, itemData, invData[i].id)
                     /\ result[k].status = invData[i].status
                     /\ <<"numeric", result[k].total>> = invData[i].total
  /\ Len(invData) - Len(result) = Cardinality(Orphans(invData, cliData))

\* C4: the list a load publishes holds, for every header it fetched whose
\* client_id is the id of a client row it fetched, exactly one invoice, with
\* that client row field-mapped and exactly the item rows of that invoice id;
\* it holds no invoice for a header without a client row, so the invoices
\* dropped are as many as the orphaned headers; and orphans do not make the
\* load fail.
C4_JoinCorrectness ==
  [][\A t \in TaskIds :
       /\ (Stepped(t) /\ tasks[t].li = "invoices" /\ dbInvoices = <<>>
              /\ Last(StepCalls(t)) = <<"select invoices", TRUE>>) => invoices' = <<>>
       /\ (Stepped(t) /\ tasks[t].li = "items" /\ Last(StepCalls(t)) = <<"select invoice_items", TRUE>>)
       => /\ JoinCorrect(tasks[t].fInv, tasks[t].fCli, dbItems, invoices')
          /\ tasks[t].op = "loadInvoices" => (ret'.op = "loadInvoices" /\ ~ret'.raised)
          /\ tasks[t].op # "loadInvoices" => (ret'.op = "none" \/ ~ret'.failed)]_vars

C4_Witness ==
  /\ Returned("loadInvoices")
  /\ ~ret.raised
  /\ Len(invoices) > 0
  /\ Len(invoices[1].items) > 0
  /\ \E i \in 1..Len(dbInvoices) :
       /\ ~Has(dbClients, dbInvoices[i].client_id)
       /\ ~Has(invoices, dbInvoices[i].id)

Writers == {"addInvoice", "updateInvoice", "deleteInvoice", "updateInvoiceStatus",
            "addClient", "updateClient", "deleteClient"}

\* The statements whose failure a writer's contract leaves out: the audit
\* insert, the counter update and the compensating delete of addInvoice.
BestEffort(r, i) ==
  \/ r.calls[i][1] = "insert audit_logs"
  \/ r.op = "addInvoice" /\ r.calls[i][1] \in {"update clients", "delete invoices"}

StatementFailed(r) ==
  \E i \in 1..Len(r.calls) : ~r.calls[i][2] /\ ~BestEffort(r, i)

\* C5: every writer of the store, when one of its backend statements fails,
\* sets the error string and raises the failure to its caller (addClient,
\* whose result is the client, may return null instead).
C5_WritersRaise ==
  (ret.op \in Writers /\ StatementFailed(ret)) =>
    /\ error # NoError
    /\ ret.raised \/ (ret.op = "addClient" /\ ret.value = NoClient)

\* A writer other than addInvoice has returned after its statement failed:
\* the error is set and nothing is raised.
C5_Witness ==
  /\ ret.op \in Writers \ {"addInvoice", "addClient"}
  /\ StatementFailed(ret)
  /\ error # NoError
  /\ ~ret.raised

StatusShown(list, id, status) ==
  \A i \in 1..Len(list) : list[i].id = id => list[i].status = status

Invalid(inv) == inv.id = "" \/ inv.client.id = "null" \/ inv.items = <<>>

\* C7: addInvoice called with an empty invoice id, a client without an id or
\* an empty item list fails with a validation error and issues no backend
\* statement: the tables and the snapshot's lists are left as they were.
C7_ValidationBeforeBackend ==
  [][(ret'.op = "addInvoice" /\ Invalid(ret'.arg)) =>
       /\ ret'.raised
       /\ ret'.calls = <<>>
       /\ error' \in {<<"Invoice ID is required">>, <<"Client ID is required">>,
                      <<"Invoice items are required">>}
       /\ tasks' = tasks
       /\ UNCHANGED <<backend, snapshot, feed>>]_vars

C7_Witness ==
  /\ Returned("addInvoice")
  /\ ret.arg.id # ""
  /\ ret.arg.client.id # "null"
  /\ ret.arg.items = <<>>
  /\ ret.raised
  /\ dbInvoices # <<>>

\* addInvoice has returned after its inserts succeeded and its counter update
\* failed.
CounterUpdateFailed ==
  /\ Returned("addInvoice")
  /\ Called(ret, "insert invoices", TRUE)
  /\ Called(ret, "insert invoice_items", TRUE)
  /\ Called(ret, "update clients", FALSE)

HeaderAndItemsKept(id) == Has(dbInvoices, id) /\ IndicesOf(dbItems, id) # {}

\* C8 as stated: when the inserts of addInvoice succeed and its counter update
\* fails, the header and the items stay, the reload and the audit insert still
\* run, and the call returns success with no error set or raised.
C8_CounterFailureIsSuccess ==
  CounterUpdateFailed =>
    /\ HeaderAndItemsKept(ret.arg.id)
    /\ ~Issued(ret, "delete invoices")
    /\ Issued(ret, "select invoices")
    /\ Issued(ret, "insert audit_logs")
    /\ ~ret.failed /\ ~ret.raised /\ error = NoError

\* C8 as amended: when the inserts of addInvoice succeed and its counter
\* update fails, the header and the items stay (no compensating delete is
\* issued) and the reload runs; if every fetch of the reload succeeds, the
\* audit insert is issued and the call returns success with no error set or
\* raised; if a fetch of the reload fails, the call sets the error, raises it
\* and issues no audit insert.
C8_CounterFailureKeepsInvoice ==
  CounterUpdateFailed =>
    /\ HeaderAndItemsKept(ret.arg.id)
    /\ ~Issued(ret, "delete invoices")
    /\ Issued(ret, "select invoices")
    /\ ~loading
    /\ IF SelectFailed(ret)
       THEN ret.failed /\ ret.raised /\ error # NoError /\ ~Issued(ret, "insert audit_logs")
       ELSE ~ret.failed /\ ~ret.raised /\ error = NoError /\ Issued(ret, "insert audit_logs")

C8_Witness == CounterUpdateFailed /\ ~ret.failed /\ Called(ret, "insert audit_logs", TRUE)

\* C9: in every writer the audit insert's failure changes nothing of the
\* outcome: whether it fails or succeeds, the step in which it answers returns
\* success with the same value, and leaves the loading flag, the error, the
\* snapshot and the rows written before as they were.
C9_AuditNeverChangesOutcome ==
  [][\A t \in TaskIds :
       (Stepped(t) /\ tasks[t].pc = "audit") =>
         /\ ret'.op = tasks[t].op
         /\ ~ret'.raised /\ ~ret'.failed
         /\ ret'.value = tasks[t].val
         /\ tasks'[t].op = "idle"
         /\ UNCHANGED <<loading, error, invoices, clients, dbClients, dbInvoices, dbItems>>
         /\ dbAudit' = dbAudit \/ Last(StepCalls(t)) = <<"insert audit_logs", TRUE>>]_vars

C9_Witness ==
  /\ ret.op \in Writers
  /\ Called(ret, "insert audit_logs", FALSE)
  /\ ~ret.failed
  /\ dbAudit = <<>>

\* C10: whenever a fetch of loadInvoices or loadClients fails, whoever started
\* the load, the snapshot's lists keep their values and the error is set.
C10_LoadFailureSetsError ==
  [][(ret'.op # "none" /\ ret'.calls # <<>> /\ Last(ret'.calls)[1] \in Selects
        /\ ~Last(ret'.calls)[2])
     => (error' # NoError /\ invoices' = invoices /\ clients' = clients)]_vars

\* A load the change feed started has failed at its first fetch while no
\* error is set.
C10_Witness ==
  /\ Returned("loadInvoices")
  /\ ret.calls = <<<<"select invoices", FALSE>>>>
  /\ isInitialized
  /\ error = NoError

\* list with exactly the entries whose id is id taken out, the others kept in
\* their order.
Without(list, id, result) ==
  LET kept == {i \in 1..Len(list) : list[i].id # id}
  IN  /\ Len(result) = Cardinality(kept)
      /\ \A n \in 1..Len(result) : result[n] = list[NthIndex(kept, n)]

\* C17: deleteClient(id), when its delete succeeds, takes exactly the client
\* with that id out of the snapshot's client list and leaves the invoice list
\* and every other client as they were, and the call issues no fetch; when
\* its delete fails, the client list is unchanged and the error is set.
C17_DeleteClientTargeted ==
  [][\A t \in TaskIds :
       (Stepped(t) /\ tasks[t].op = "deleteClient") =>
         /\ (tasks[t].pc = "delete" /\ Last(StepCalls(t)) = <<"delete clients", TRUE>>) =>
              /\ Without(clients, tasks[t].arg.id, clients')
              /\ invoices' = invoices
              /\ ~loading'
              /\ tasks'[t].pc = "audit"
              /\ tasks'[t].li = "none" /\ tasks'[t].lc = "none"
         /\ (tasks[t].pc = "delete" /\ Last(StepCalls(t)) = <<"delete clients", FALSE>>) =>
              /\ clients' = clients
              /\ invoices' = invoices
              /\ error' = <<"Failed to delete client", "backend", "delete clients">>
              /\ ret'.op = "deleteClient" /\ ret'.failed
         /\ ret'.op = "deleteClient" => \A stmt \in Selects : ~Issued(ret', stmt)]_vars

C17_Witness ==
  /\ Returned("deleteClient")
  /\ ~ret.failed
  /\ Len(clients) > 0
  /\ ~Has(clients, ret.arg.id)
  /\ ~Has(dbClients, ret.arg.id)

AddInvoiceOrder ==
  <<"insert invoices", "insert invoice_items", "update clients", "select invoices",
    "select clients", "select invoice_items", "select clients", "insert audit_logs">>
AddInvoiceRollbackOrder == <<"insert invoices", "insert invoice_items", "delete invoices">>

Statements(calls) == [i \in 1..Len(calls) |-> calls[i][1]]
IsPrefix(s, full) == Len(s) <= Len(full) /\ \A i \in 1..Len(s) : s[i] = full[i]

\* The statements of an addInvoice call follow the order, and a statement is
\* issued only when every statement before it that the call depends on has
\* answered with success.
InOrder(calls) ==
  /\ \/ IsPrefix(Statements(calls), AddInvoiceOrder)
     \/ IsPrefix(Statements(calls), AddInvoiceRollbackOrder)
  /\ \A i \in 1..Len(calls) :
       (i < Len(calls) /\ ~calls[i][2]) =>
         \/ calls[i][1] = "update clients"
         \/ calls[i][1] = "insert invoice_items" /\ calls[i + 1][1] = "delete invoices"

\* C18: within one addInvoice call the backend statements are issued in the
\* order header insert, item insert, counter update, reload of invoices,
\* reload of clients, audit insert, each after the one before it has
\* answered; a call that returns success has issued all of them.
C18_AddInvoiceOrder ==
  /\ \A t \in TaskIds :
       tasks[t].op = "addInvoice" =>
         /\ InOrder(tasks[t].calls)
         /\ tasks[t].pc =
              CASE Len(tasks[t].calls) = 0 -> "insertInvoice"
                [] Len(tasks[t].calls) = 1 -> "insertItems"
                [] Len(tasks[t].calls) = 2 ->
                     IF tasks[t].calls[2][2] THEN "updateClient" ELSE "rollback"
                [] Len(tasks[t].calls) \in 3..5 -> "reloadInvoices"
                [] Len(tasks[t].calls) = 6 -> "reloadClients"
                [] OTHER -> "audit"
  /\ Returned("addInvoice") =>
       /\ InOrder(ret.calls)
       /\ ~ret.failed => Statements(ret.calls) = AddInvoiceOrder

C18_Witness ==
  /\ Returned("addInvoice")
  /\ ~ret.failed
  /\ Statements(ret.calls) = AddInvoiceOrder
  /\ \A i \in 1..Len(ret.calls) : ret.calls[i][2]

\* C19: when the header insert of addInvoice fails, the call ends there: no
\* item insert, no compensating delete, no counter update, no reload and no
\* audit insert is issued, the tables and the snapshot are as they were, and
\* the header-insert error is set and raised.
C19_HeaderFailureStops ==
  [][\A t \in TaskIds :
       (Stepped(t) /\ tasks[t].op = "addInvoice" /\ tasks[t].pc = "insertInvoice"
          /\ Last(StepCalls(t)) = <<"insert invoices", FALSE>>) =>
         /\ ret'.op = "addInvoice"
         /\ ret'.calls = <<<<"insert invoices", FALSE>>>>
         /\ ret'.raised
         /\ error' = <<"Failed to create invoice", "backend", "insert invoices">>
         /\ ~loading'
         /\ tasks'[t].op = "idle"
         /\ UNCHANGED <<backend, snapshot>>]_vars

C19_Witness ==
  /\ Returned("addInvoice")
  /\ ret.calls = <<<<"insert invoices", FALSE>>>>
  /\ ret.raised
  /\ ~Has(dbInvoices, ret.arg.id)
  /\ Has(dbClients, ret.arg.client.id)

\* updateInvoice has returned after the delete of its old items succeeded and
\* the insert of the new ones failed.
ItemReplaceFailed ==
  /\ Returned("updateInvoice")
  /\ Called(ret, "delete invoice_items", TRUE)
  /\ Called(ret, "insert invoice_items", FALSE)

\* C20: when updateInvoice carries an item list, the delete of the old item
\* rows succeeds and the insert of the new ones fails, nothing is issued
\* after the failed insert: the invoice is left in the backend with no item
\* rows and with the header patch applied, and the error is set.
C20_NoCompensationOnItemReplace ==
  ItemReplaceFailed =>
    /\ Statements(ret.calls) = <<"update invoices", "delete invoice_items", "insert invoice_items">>
    /\ IndicesOf(dbItems, ret.arg.id) = {}
    /\ Has(dbInvoices, ret.arg.id) =>
         dbInvoices[Row(dbInvoices, ret.arg.id)].total = <<"numeric", ret.arg.total>>
    /\ ret.failed
    /\ error = <<"Failed to update invoice items", "backend", "insert invoice_items">>
    /\ ~loading

C20_Witness ==
  /\ ItemReplaceFailed
  /\ Has(dbInvoices, ret.arg.id)
  /\ Has(invoices, ret.arg.id)
  /\ Len(invoices[Row(invoices, ret.arg.id)].items) > 0
  /\ IndicesOf(dbItems, ret.arg.id) = {}

\* C12: across initializeDatabase, subscribeToRealTimeUpdates,
\* unsubscribeFromRealTimeUpdates and reset, at most one subscription is open
\* at any time, and whenever one is open the store's handle refers to it.
C12_SingleSubscription ==
  /\ openChannels <= 1
  /\ openChannels = 1 => realtimeChannel = 1

\* Two subscriptions were opened and the one of the handle was closed: the
\* first is still open and the store has no handle to release it.
C12_Witness ==
  /\ Returned("unsubscribeFromRealTimeUpdates")
  /\ openChannels = 1
  /\ realtimeChannel = NoChannel

\* The lookup of a setCurrentUser call answers in this step.
LookupAnswers(t) ==
  Stepped(t) /\ tasks[t].op = "setCurrentUser" /\ tasks[t].pc = "lookup"

\* C13: when setCurrentUser finds no account row for the trimmed phone, the
\* lookup's own failure included, the session fields of the store and the two
\* entries of localStorage are left as they were.
C13_NotFoundChangesNothing ==
  [][\A t \in TaskIds :
       (LookupAnswers(t)
          /\ (~Last(StepCalls(t))[2] \/ \A u \in Users : u.phone # tasks[t].arg.phone)) =>
         /\ UNCHANGED <<currentUserPhone, currentUserName, lsPhone, lsName>>
         /\ ret'.op = "setCurrentUser" /\ ret'.failed
         /\ ret'.calls = <<<<"select users", Last(StepCalls(t))[2]>>>>]_vars

\* A signed-in user stays signed in after a sign-in with an unknown phone.
C13_Witness ==
  /\ Returned("setCurrentUser")
  /\ ret.failed
  /\ ret.calls = <<<<"select users", TRUE>>>>
  /\ ret.arg.phone = "+250788000002"
  /\ currentUserPhone = "+250788000000"
  /\ lsPhone = "+250788000000"
  /\ lsName = "Jean"

\* C14: when setCurrentUser finds the account of the trimmed phone, the
\* session phone is the trimmed phone afterwards, the session name is the
\* account's name when it has one and otherwise the caller's, and the
\* persisted phone and name are these same two values.
C14_FoundSetsSession ==
  [][\A t \in TaskIds :
       (LookupAnswers(t) /\ Last(StepCalls(t))[2]
          /\ \E u \in Users : u.phone = tasks[t].arg.phone) =>
         LET u == CHOOSE u \in Users : u.phone = tasks[t].arg.phone
         IN  /\ currentUserPhone' = tasks[t].arg.phone
             /\ u.name # "" => currentUserName' = u.name
             /\ u.name = "" => currentUserName' = tasks[t].arg.name
             /\ lsPhone' = currentUserPhone'
             /\ lsName' = currentUserName']_vars

\* A sign-in without any name, after the sign-in of a named account: the
\* session has no name and the persisted name is the other account's.
C14_Witness ==
  /\ Returned("setCurrentUser")
  /\ ~ret.failed
  /\ currentUserPhone = "+250788000001"
  /\ currentUserName = Null
  /\ lsPhone = "+250788000001"
  /\ lsName = "Jean"

\* The item rows of an invoice, and the sum of their quantity x unit price.
ItemRowsOf(id) == SelectSeq(dbItems, LAMBDA r : r.invoice_id = id)
RECURSIVE SumOfRows(_)
SumOfRows(rows) ==
  IF rows = <<>> THEN 0
  ELSE rows[1].quantity * ParseFloat(rows[1].unit_price) + SumOfRows(Tail(rows))

\* An addInvoice call of the form has returned after both of its inserts
\* succeeded.
InvoiceCreated ==
  /\ Returned("addInvoice")
  /\ Called(ret, "insert invoices", TRUE)
  /\ Called(ret, "insert invoice_items", TRUE)
  /\ Has(dbInvoices, ret.arg.id)

\* C15: for an invoice created by the form's submission and addInvoice, the
\* stored total is the sum over its stored items of quantity x unit price, and
\* each stored item's total price is its quantity x unit price.
C15_TotalIsSumOfItems ==
  InvoiceCreated =>
    LET rows == ItemRowsOf(ret.arg.id)
    IN  /\ rows # <<>>
        /\ ParseFloat(dbInvoices[Row(dbInvoices, ret.arg.id)].total) = SumOfRows(rows)
        /\ \A i \in 1..Len(rows) :
             ParseFloat(rows[i].total_price) =
               rows[i].quantity * ParseFloat(rows[i].unit_price)

\* An invoice of one shirt line (2 x 1000) was created with the total of the
\* two lines the user had on screen when addClient returned (2500).
C15_Witness ==
  /\ InvoiceCreated
  /\ Len(ItemRowsOf(ret.arg.id)) = 1
  /\ SumOfRows(ItemRowsOf(ret.arg.id)) = 2000
  /\ dbInvoices[Row(dbInvoices, ret.arg.id)].total = ToNumeric(2500)

\* No two entries of a list of clients share a phone.
DistinctPhones(list) ==
  \A i, j \in 1..Len(list) : list[i].phone = list[j].phone => i = j

\* C16: no two rows of the clients table and no two entries of the snapshot's
\* client list share a phone.
C16_NoDuplicatePhones == DistinctPhones(dbClients) /\ DistinctPhones(clients)

\* A client was given the phone of another client by updateClient, on a store
\* that had loaded both: table and snapshot hold the phone twice.
C16_Witness ==
  /\ Returned("updateClient")
  /\ ~ret.failed
  /\ isInitialized
  /\ ~DistinctPhones(dbClients)
  /\ ~DistinctPhones(clients)

\* The store is initialized and subscribed, nothing is in flight, no
\* notification is waiting and no reload has failed: unless a table is written
\* again, no step of the store or of the feed is left to take.
Quiet ==
  /\ isInitialized
  /\ realtimeChannel # NoChannel
  /\ openChannels > 0
  /\ \A t \in TaskIds : tasks[t] = Idle
  /\ pendInv = 0
  /\ pendCli = 0
  /\ feedLog = "clean"

\* The snapshot is what loads of the tables as they stand would publish.
ClientsNow == MapClients(Reverse(dbClients))
Consistent == invoices = LoadNow /\ clients = ClientsNow

\* C11: once the writes to the invoices and clients tables have stopped and
\* every reload the notifications started has completed without error, the
\* snapshot's invoices and clients equal the join of the tables.  In a quiet
\* state nothing is left to run, so the snapshot of that state is the one
\* that stays: it has to be the consistent one.
C11_QuietIsConsistent == Quiet => Consistent

\* The reload that answered a clients notification has just succeeded, no
\* other is waiting, the client list is the clients table, and an invoice of
\* the snapshot still embeds a client as it was before the write.
C11_Witness ==
  /\ Quiet
  /\ Returned("loadClients")
  /\ ~ret.failed
  /\ clients = ClientsNow
  /\ Ids(invoices) = Ids(LoadNow)
  /\ \E i \in 1..Len(invoices) :
       /\ Has(dbClients, invoices[i].client.id)
       /\ invoices[i].client # MapClient(dbClients[Row(dbClients, invoices[i].client.id)])

\* C22: deleteInvoice(id), when its delete succeeds, takes exactly the
\* invoice with that id out of the snapshot's invoice list, leaves the other
\* invoices and the client list as they were, starts no load, and goes on to
\* the audit insert, whose row is the delete of that invoice; when its delete
\* fails, the invoice list is unchanged and the error is set.
C22_DeleteInvoiceTargeted ==
  [][\A t \in TaskIds :
       (Stepped(t) /\ tasks[t].op = "deleteInvoice") =>
         /\ (tasks[t].pc = "delete" /\ Last(StepCalls(t)) = <<"delete invoices", TRUE>>) =>
              /\ Without(invoices, tasks[t].arg.id, invoices')
              /\ clients' = clients
              /\ ~loading'
              /\ tasks'[t].pc = "audit"
              /\ tasks'[t].li = "none" /\ tasks'[t].lc = "none"
         /\ (tasks[t].pc = "delete" /\ Last(StepCalls(t)) = <<"delete invoices", FALSE>>) =>
              /\ invoices' = invoices
              /\ clients' = clients
              /\ error' = <<"Failed to delete invoice", "backend", "delete invoices">>
              /\ ret'.op = "deleteInvoice" /\ ret'.failed
         /\ tasks[t].pc = "audit" =>
              /\ ret'.op = "deleteInvoice" /\ ~ret'.failed
              /\ ret'.calls[1] = <<"delete invoices", TRUE>>
              /\ Last(ret'.calls) = <<"insert audit_logs", TRUE>> =>
                   dbAudit' = Append(dbAudit, [action |-> "delete", entity_type |-> "invoice",
                                               entity_id |-> tasks[t].arg.id])
         /\ ret'.op = "deleteInvoice" => \A stmt \in Selects : ~Issued(ret', stmt)]_vars

\* deleteInvoice has returned after removing one of two invoices of the
\* snapshot and appending its audit row.
C22_Witness ==
  /\ Returned("deleteInvoice")
  /\ ~ret.failed
  /\ Called(ret, "insert audit_logs", TRUE)
  /\ Len(invoices) > 0
  /\ ~Has(invoices, ret.arg.id)
  /\ ~Has(dbInvoices, ret.arg.id)
  /\ dbAudit # <<>>
  /\ Last(dbAudit).entity_id = ret.arg.id

\* addInvoice has returned after its header insert and its item insert both
\* succeeded.
Committed ==
  /\ Returned("addInvoice")
  /\ Called(ret, "insert invoices", TRUE)
  /\ Called(ret, "insert invoice_items", TRUE)

\* C26 as stated: when the header insert and the item insert of addInvoice
\* both succeed, the call reports success (no error set, none raised) and
\* issues the audit insert, whatever the reload does.
C26_CommittedIsSuccess ==
  Committed =>
    /\ ~ret.failed /\ ~ret.raised /\ error = NoError
    /\ Issued(ret, "insert audit_logs")

\* C26 as amended: when the header insert and the item insert of addInvoice
\* both succeed, the rows stay in the backend and no compensating delete is
\* issued; the call reports success and issues the audit insert exactly when
\* every fetch of its reload succeeds; when a fetch of the reload fails, the
\* call sets the error and raises it, issues no audit insert, and the header
\* and the items it wrote are still there.
C26_CommittedReportsReload ==
  Committed =>
    /\ HeaderAndItemsKept(ret.arg.id)
    /\ ~Issued(ret, "delete invoices")
    /\ Issued(ret, "update clients")
    /\ ~loading
    /\ SelectFailed(ret) <=> ret.failed
    /\ ret.failed <=> ret.raised
    /\ ret.failed <=> error # NoError
    /\ ret.failed <=> ~Issued(ret, "insert audit_logs")

\* addInvoice has reported a failure, its counter update succeeded, and the
\* invoice it wrote is in the backend.
C26_Witness ==
  /\ Committed
  /\ Called(ret, "update clients", TRUE)
  /\ SelectFailed(ret)
  /\ ret.raised
  /\ HeaderAndItemsKept(ret.arg.id)

\* C29: whenever no load is in progress, the client embedded in an invoice of
\* the snapshot equals, in every field, the entry of the same id in the
\* snapshot's client list.
C29_EmbeddedClientIsListed ==
  NoLoadInProgress =>
    \A i \in 1..Len(invoices), j \in 1..Len(clients) :
      clients[j].id = invoices[i].client.id => invoices[i].client = clients[j]

\* updateClient has returned success: the client list shows the new phone and
\* an invoice of that client still embeds the old one.
C29_Witness ==
  /\ Returned("updateClient")
  /\ ~ret.failed
  /\ NoLoadInProgress
  /\ \E i \in 1..Len(invoices), j \in 1..Len(clients) :
       /\ clients[j].id = ret.arg.id
       /\ invoices[i].client.id = ret.arg.id
       /\ clients[j].phone = ret.arg.phone
       /\ invoices[i].client.phone # ret.arg.phone

\* The step is the sign-in of an account that was found, or a sign-out.
SessionSet ==
  \/ \E t \in TaskIds : LookupAnswers(t) /\ ret'.op = "setCurrentUser" /\ ~ret'.failed
  \/ ret'.op = "signOut"

\* C28: after a setCurrentUser that found its account and after a signOut,
\* the persisted session is the session in memory: the persisted phone is
\* there exactly when currentUserPhone is set and is equal to it, and the same
\* for the name.  The step of a sign-in that found no account changes neither.
C28_PersistedIsSession ==
  [][SessionSet => lsPhone' = currentUserPhone' /\ lsName' = currentUserName']_vars

\* The session that initializeDatabase has restored from localStorage is not
\* one that was ever set: the phone of the account signed in last, without a
\* name, under the name of the account signed in before.
C28_Witness ==
  /\ isInitialized
  /\ currentUserPhone = "+250788000001"
  /\ currentUserName = "Jean"
  /\ lsPhone = "+250788000001"
  /\ lsName = "Jean"

\* A statement that writes the invoice or its items failed in the call.
WriteFailed(r) ==
  \E stmt \in {"insert invoices", "insert invoice_items", "update invoices",
               "delete invoice_items"} : Called(r, stmt, FALSE)

\* C30: the form reports success (the success toast and onSave) only if the
\* write of the store call it made succeeded in the backend, on the create
\* path and on the edit path.
C30_SavedOnlyIfWritten ==
  [][(WriteReturned /\ form'.pc = "saved") => ~WriteFailed(ret)]_vars

\* The form of an invoice under edit has called onSave although the update of
\* the header was refused: the store holds the error and the row is as before.
C30_Witness ==
  /\ form.pc = "saved"
  /\ error = <<"Failed to update invoice", "backend", "update invoices">>
  /\ ~loading

\* The list is the rows, newest first, each mapped field by field.
ClientsMatch(list, rows) ==
  /\ Len(list) = Len(rows)
  /\ \A j \in 1..Len(list) : ClientMatches(list[j], rows[Len(rows) + 1 - j])

\* C21: a reload that completes replaces the list of the snapshot by its own
\* result, whatever the snapshot holds, whichever reloads are still in flight
\* and whichever have completed before it: after several reloads of one
\* collection the snapshot is the result of the one that completed last.
C21_LastReloadWins ==
  [][\A t \in TaskIds :
       /\ (Stepped(t) /\ tasks[t].li = "invoices" /\ dbInvoices = <<>>
              /\ Last(StepCalls(t)) = <<"select invoices", TRUE>>) =>
            invoices' = <<>> /\ clients' = clients
       /\ (Stepped(t) /\ tasks[t].li = "items"
              /\ Last(StepCalls(t)) = <<"select invoice_items", TRUE>>) =>
            /\ JoinCorrect(tasks[t].fInv, tasks[t].fCli, dbItems, invoices')
            /\ clients' = clients
       /\ (Stepped(t) /\ tasks[t].lc = "clients" /\ tasks'[t].lc # "clients"
              /\ Last(StepCalls(t)) = <<"select clients", TRUE>>) =>
            /\ ClientsMatch(clients', dbClients)
            /\ invoices' = invoices]_vars

\* Of two reloads of the invoices that were in flight at once, the one that
\* had read the headers before a status was changed has completed last: every
\* notification was answered, no reload failed, none is in flight, and the
\* snapshot shows the status the reload read, not the one of the table.
C21_Witness ==
  /\ Returned("loadInvoices")
  /\ ~ret.failed
  /\ isInitialized
  /\ \A t \in TaskIds : tasks[t] = Idle
  /\ pendInv = 0
  /\ pendCli = 0
  /\ feedLog = "clean"
  /\ Ids(invoices) = Ids(dbInvoices)
  /\ \E i \in 1..Len(invoices) :
       invoices[i].status # dbInvoices[Row(dbInvoices, invoices[i].id)].status

\* A write operation or initializeDatabase has started and not yet returned.
InFlight(t) == tasks[t].op \in Writers \cup {"initializeDatabase"}

\* C27: the loading flag is true whenever a write operation or
\* initializeDatabase is still in flight, and false once every started
\* operation has returned.
C27_LoadingWhileInFlight == loading <=> \E t \in TaskIds : InFlight(t)

\* A write operation is in flight and has made its change in the backend.
C27_Witness ==
  \E t \in TaskIds :
    /\ InFlight(t)
    /\ tasks[t].op \in Writers
    /\ tasks[t].calls # <<>>
    /\ Last(tasks[t].calls)[2]

\* The visit count the clients table holds for a client.
StoredVisitCount(id) == dbClients[Row(dbClients, id)].visit_count

\* An addInvoice call has just returned without an error, and its counter
\* update was accepted for a client row that exists.
AddInvoiceCounted ==
  /\ Returned("addInvoice")
  /\ ~ret.failed
  /\ ~ret.raised
  /\ Called(ret, "update clients", TRUE)
  /\ Has(dbClients, ret.arg.client.id)

\* C25: no increment of the visit counter is lost.  The calls of the store
\* follow one another and nothing else writes the counter, so the k calls of
\* the claim are k times one call: when an addInvoice call succeeds, its
\* counter update included, the stored visit count of its client is one more
\* than it was when the call was made.
C25_NoLostIncrement ==
  AddInvoiceCounted => StoredVisitCount(ret.arg.client.id) = ret.stored + 1

\* A successful addInvoice for a client that had visits before has returned.
C25_Witness ==
  /\ AddInvoiceCounted
  /\ ret.stored > 0
  /\ Has(dbInvoices, ret.arg.id)

\* The snapshot shows what the call wrote: the status an updateInvoiceStatus
\* call set, on the entry of that invoice if the snapshot has one, or no
\* entry for the invoice a deleteInvoice call removed.
ShowsWrite(op, arg) ==
  CASE op = "updateInvoiceStatus" ->
         Has(invoices, arg.id) => invoices[Row(invoices, arg.id)].status = arg.status
    [] op = "deleteInvoice" -> ~Has(invoices, arg.id)
    [] OTHER -> TRUE

\* C23: once updateInvoiceStatus or deleteInvoice has updated the snapshot,
\* the snapshot does not show the state of that invoice from before the
\* write again.  The calls of the store follow one another, so no other
\* write to the invoice occurs while the call awaits its audit insert, nor
\* in the step in which it returns: in those states the snapshot shows what
\* the call wrote, whatever reloads complete in between.
C23_WriteStaysVisible ==
  /\ \A t \in TaskIds :
       tasks[t].pc = "audit" => ShowsWrite(tasks[t].op, tasks[t].arg)
  /\ (ret # NoRet /\ ~ret.failed) => ShowsWrite(ret.op, ret.arg)

\* A reload that the change feed started has completed while an
\* updateInvoiceStatus or deleteInvoice call was awaiting its audit insert,
\* and the snapshot does not show what the call wrote.
C23_Witness ==
  /\ Returned("loadInvoices")
  /\ ~ret.failed
  /\ ret.calls[1][1] = "select invoices"
  /\ \E t \in TaskIds :
       /\ tasks[t].op \in {"updateInvoiceStatus", "deleteInvoice"}
       /\ tasks[t].pc = "audit"
       /\ ~ShowsWrite(tasks[t].op, tasks[t].arg)

\* The join of the three tables as they stood at one instant.
JoinOf(tables, result) ==
  JoinCorrect(Reverse(tables.invoices), tables.clients, tables.items, result)

\* A load of the invoices publishes in this step.
PublishesJoin(t) ==
  /\ Stepped(t)
  /\ tasks[t].li = "items"
  /\ Last(StepCalls(t)) = <<"select invoice_items", TRUE>>

\* C24: the list a load of the invoices publishes is the join of the three
\* tables as they stood at one instant between its header fetch and its item
\* fetch, whatever writes fall between its three fetches.
C24_JoinOfOneInstant ==
  [][\A t \in TaskIds :
       (hist # <<>> /\ PublishesJoin(t)) =>
         \E i \in tasks[t].since..Len(hist) : JoinOf(hist[i], invoices')]_vars

\* A reload that the change feed started has published a list that is the
\* join of the tables at none of the instants of the history.
C24_Witness ==
  /\ Returned("loadInvoices")
  /\ ~ret.failed
  /\ ret.calls[1][1] = "select invoices"
  /\ hist # <<>>
  /\ \A i \in 1..Len(hist) : ~JoinOf(hist[i], invoices)

====
